---- MODULE Spec2Model ----
(***************************************************************************)
(* Telemetry gateway: BoundedQueue, AgentQuotaTracker, BoundedForwarder    *)
(* (TB-5) and SourceLimiter (TB-1.5), modelled from the C++ sources.       *)
(*                                                                         *)
(* Objects are records whose fields carry the names of the C++ members.    *)
(* Member functions are operators that take the object and return the      *)
(* updated object together with the return value.                          *)
(***************************************************************************)
EXTENDS Integers, Sequences, FiniteSets, TLC

(***************************************************************************)
(* Bounds of the model                                                     *)
(***************************************************************************)
\* largest ForwarderConfig::max_queue_depth drawn at construction
MaxQueueDepth == 2
\* largest ForwarderConfig::max_per_agent drawn at construction
MaxPerAgent == 2
\* number of try_forward calls explored (caps the cumulative counters)
MaxForwardCalls == 5
\* largest capacity of the stand-alone BoundedQueue<int>
MaxCapacity == 3
\* number of try_push calls on the stand-alone queue (caps drop_count_)
MaxPushCalls == 6

\* largest SourceLimiterConfig::max_sources drawn at construction
MaxSources == 2
\* largest SourceLimiterConfig::tokens_per_sec drawn at construction
MaxRate == 1
\* largest SourceLimiterConfig::burst_tokens drawn at construction
MaxBurst == 2
\* last clock reading explored, in ticks
MaxTime == 2
\* number of SourceLimiter::admit calls explored (caps the counters)
MaxAdmitCalls == 4
\* number of admit calls explored when the clock may return any reading
MaxAnyClockCalls == 2

\* payload sizes 0 .. MaxSmallSize are all explored by parse_envelope
MaxSmallSize == 4

\* width in bits the 64-bit timestamps and window values are scaled to
TsBits == 3
\* longest agent_id explored exhaustively (the long ones are added by hand)
MaxIdLen == 2
\* largest ParsedMetrics::metric_count explored
MaxMetrics == 2
\* longest log message explored
MaxMsgLen == 3

\* agent identifiers carried by QueuedEvent::agent_id
Agents == {"A", "B"}
\* values pushed on the stand-alone BoundedQueue<int>
Values == {1, 2}

VARIABLES
    \* ---- BoundedForwarder (forwarder.hpp:148-158)
    config_,              \* ForwarderConfig
    quota_tracker_,       \* AgentQuotaTracker
    queue_,               \* BoundedQueue<QueuedEvent>
    total_forwarded_,
    dropped_queue_full_,
    dropped_quota_,
    sink_failures_,
    \* ---- observation of the forwarder's callers and of the sink
    next_id,              \* payload of the next event handed to try_forward
    last_call,            \* the last call on the forwarder and what it returned
    queued_log,           \* events for which try_forward returned Queued
    sink_log,             \* events handed to Sink::write, in call order
    \* ---- stand-alone BoundedQueue<int>
    bq,                   \* the ring
    bq_fifo,              \* the bounded FIFO sequence it is compared with
    bq_last,              \* the last call on the ring and what it returned
    bq_pushes,            \* number of try_push calls made
    bq_dropped,           \* Dropped results since construction or last reset
    \* ---- SourceLimiter (source_limiter.hpp:103-111)
    limiter,              \* the SourceLimiter object
    clock_now,            \* what the injected Clock returns when called now
    allow_count,          \* per source and clock reading: number of Allow
    insertions,           \* number of new-source insertions made by admit
    lim_last,             \* the last admit call and what it returned
    admit_calls,          \* number of admit calls made
    recency,              \* sources by latest admit call, newest first
    solo,                 \* per source: a limiter given that source's calls only
    \* ---- parse_envelope (parse_envelope.cpp:10-41), a pure function
    env_payload,          \* the payload of the last call
    env_result,           \* what the last call returned
    env_prev,             \* payload and result of the call before it
    \* ---- validate_metrics (validate_metrics.cpp:7-103), a pure function
    met_input,            \* parsed, config and current_time_ms of the call
    met_result,           \* what the call returned
    \* ---- validate_log (validate_log.cpp:5-86), a pure function
    log_input,            \* parsed, config and current_time_ms of the call
    log_result,           \* what the call returned
    log_again,            \* what validate_log returned for the validated log
    \* ---- parse_log (parse_log.cpp:275-277), a pure function
    plog_input,           \* the input line of the call
    plog_result,          \* what the call returned
    \* ---- parse_metrics (parse_metrics.cpp:554-557), a pure function
    pm_input,             \* the message of the call
    pm_result,            \* what the call returned
    \* ---- RecvLoop (recv_loop.hpp, recv_loop.cpp)
    recv_loop,            \* the RecvLoop object
    rv_last,              \* the last recvfrom call and what recv_one returned
    rv_calls,             \* number of recv_one calls made
    \* ---- BoundedForwarder::drain_all (forwarder.cpp:102-108)
    drained,              \* what the last drain_all call returned
    \* ---- the loop of main (demos/gateway_server.cpp:218-354)
    stats,                \* Stats
    gw_last,              \* the last iteration: what arrived, the stages run
    gw_iterations         \* number of iterations made

fwd_vars == <<config_, quota_tracker_, queue_, total_forwarded_,
              dropped_queue_full_, dropped_quota_, sink_failures_,
              next_id, last_call, queued_log, sink_log>>
bq_vars == <<bq, bq_fifo, bq_last, bq_pushes, bq_dropped>>
lim_vars == <<limiter, clock_now, allow_count, insertions, lim_last,
              admit_calls, recency, solo>>
env_vars == <<env_payload, env_result, env_prev>>
met_vars == <<met_input, met_result>>
log_vars == <<log_input, log_result, log_again>>
plog_vars == <<plog_input, plog_result>>
pm_vars == <<pm_input, pm_result>>
rv_vars == <<recv_loop, rv_last, rv_calls>>
da_vars == <<drained>>
gw_vars == <<stats, gw_last, gw_iterations>>
host_vars == <<rv_vars, da_vars, gw_vars>>
more_vars == <<plog_vars, pm_vars, host_vars>>
pure_vars == <<env_vars, met_vars, log_vars, more_vars>>
vars == <<fwd_vars, bq_vars, lim_vars, pure_vars>>

(***************************************************************************)
(* BoundedQueue<T>  (include/gateway/bounded_queue.hpp)                    *)
(***************************************************************************)
\* a default-constructed QueuedEvent: empty agent_id, empty payload.  The
\* moved-from state of a QueuedEvent is modelled as this value (the slot is
\* never read again before try_push overwrites it).
NoEvent == [agent_id |-> "", payload |-> 0]

\* what std::move leaves behind in a slot: a trivially copyable T (int) keeps
\* its value, a QueuedEvent is left as `empty'
MovedFrom(item, trivial, empty) == IF trivial THEN item ELSE empty

\* BoundedQueue(capacity): buffer_(capacity) value-initialises every slot
BoundedQueue(capacity, default) ==
    [buffer_     |-> [i \in 0 .. capacity - 1 |-> default],
     capacity_   |-> capacity,
     head_       |-> 0,
     tail_       |-> 0,
     size_       |-> 0,
     drop_count_ |-> 0]

\* mutant of try_push: the tail index is advanced without wrapping
BQ_try_push_nowrap(q, item) ==
    IF q.size_ >= q.capacity_
    THEN [q |-> [q EXCEPT !.drop_count_ = @ + 1], result |-> "Dropped"]
    ELSE [q |-> [q EXCEPT !.buffer_[q.tail_ % q.capacity_] = item,
                          !.tail_ = q.tail_ + 1,
                          !.size_ = @ + 1],
          result |-> "Ok"]

BQ_try_push(q, item) ==
    IF q.size_ >= q.capacity_
    THEN [q |-> [q EXCEPT !.drop_count_ = @ + 1], result |-> "Dropped"]
    ELSE [q |-> [q EXCEPT !.buffer_[q.tail_] = item,
                          !.tail_ = (q.tail_ + 1) % q.capacity_,
                          !.size_ = @ + 1],
          result |-> "Ok"]

\* mutant of try_pop: takes the newest item instead of the oldest
BQ_try_pop_newest(q, trivial, none) ==
    IF q.size_ = 0
    THEN [q |-> q, has |-> FALSE, item |-> none]
    ELSE LET last == (q.head_ + q.size_ - 1) % q.capacity_ IN
         [q |-> [q EXCEPT !.buffer_[last] = MovedFrom(q.buffer_[last], trivial, none),
                          !.tail_ = last,
                          !.size_ = @ - 1],
          has |-> TRUE,
          item |-> q.buffer_[last]]

\* has = FALSE is std::nullopt; `none' is a value-initialised T; `trivial'
\* says whether T is trivially copyable
BQ_try_pop(q, trivial, none) ==
    IF q.size_ = 0
    THEN [q |-> q, has |-> FALSE, item |-> none]
    ELSE [q |-> [q EXCEPT !.buffer_[q.head_] =
                              MovedFrom(q.buffer_[q.head_], trivial, none),
                          !.head_ = (q.head_ + 1) % q.capacity_,
                          !.size_ = @ - 1],
          has |-> TRUE,
          item |-> q.buffer_[q.head_]]

\* has = FALSE is nullptr
BQ_peek(q, none) ==
    IF q.size_ = 0
    THEN [has |-> FALSE, item |-> none]
    ELSE [has |-> TRUE, item |-> q.buffer_[q.head_]]

BQ_size(q) == q.size_

BQ_capacity(q) == q.capacity_

BQ_empty(q) == q.size_ = 0

BQ_full(q) == q.size_ >= q.capacity_

BQ_drop_count(q) == q.drop_count_

\* mutant of reset_drop_count: also forgets the queued items
BQ_reset_drop_count_clears(q) ==
    [q EXCEPT !.drop_count_ = 0, !.size_ = 0, !.tail_ = q.head_]

BQ_reset_drop_count(q) == [q EXCEPT !.drop_count_ = 0]

\* the live items of the ring, oldest first
BQ_contents(q) ==
    [k \in 1 .. q.size_ |-> q.buffer_[(q.head_ + k - 1) % q.capacity_]]

(***************************************************************************)
(* AgentQuotaTracker  (src/forwarder.cpp:9-48)                             *)
(***************************************************************************)
AgentQuotaTracker(max_per_agent) ==
    [in_flight_        |-> << >>,
     max_per_agent_    |-> max_per_agent,
     total_in_flight_  |-> 0,
     quota_rejections_ |-> 0]

\* in_flight_[agent_id]: operator[] inserts 0 for a key that is not present
InsertDefault(m, agent_id) ==
    IF agent_id \in DOMAIN m THEN m ELSE m @@ (agent_id :> 0)

\* unordered_map::erase of one key
Erase(m, key) == [k \in DOMAIN m \ {key} |-> m[k]]

\* mutant of try_reserve: off-by-one comparison (> instead of >=)
try_reserve_off_by_one(t, agent_id) ==
    LET m == InsertDefault(t.in_flight_, agent_id) IN
    IF m[agent_id] > t.max_per_agent_
    THEN [t |-> [t EXCEPT !.in_flight_ = m, !.quota_rejections_ = @ + 1],
          ok |-> FALSE]
    ELSE [t |-> [t EXCEPT !.in_flight_ = [m EXCEPT ![agent_id] = @ + 1],
                          !.total_in_flight_ = @ + 1],
          ok |-> TRUE]

try_reserve(t, agent_id) ==
    LET m == InsertDefault(t.in_flight_, agent_id) IN
    IF m[agent_id] >= t.max_per_agent_
    THEN [t |-> [t EXCEPT !.in_flight_ = m, !.quota_rejections_ = @ + 1],
          ok |-> FALSE]
    ELSE [t |-> [t EXCEPT !.in_flight_ = [m EXCEPT ![agent_id] = @ + 1],
                          !.total_in_flight_ = @ + 1],
          ok |-> TRUE]

\* mutant of release: the per-agent count is decremented, the total is not
release_keeps_total(t, agent_id) ==
    IF agent_id \in DOMAIN t.in_flight_
    THEN LET c  == t.in_flight_[agent_id]
             c2 == IF c > 0 THEN c - 1 ELSE c
         IN  IF c2 = 0
             THEN [t EXCEPT !.in_flight_ = Erase(t.in_flight_, agent_id)]
             ELSE [t EXCEPT !.in_flight_[agent_id] = c2]
    ELSE t

release(t, agent_id) ==
    IF agent_id \in DOMAIN t.in_flight_
    THEN LET c  == t.in_flight_[agent_id]
             c2 == IF c > 0 THEN c - 1 ELSE c
             n2 == IF c > 0 THEN t.total_in_flight_ - 1 ELSE t.total_in_flight_
         IN  IF c2 = 0
             THEN [t EXCEPT !.in_flight_ = Erase(t.in_flight_, agent_id),
                            !.total_in_flight_ = n2]
             ELSE [t EXCEPT !.in_flight_[agent_id] = c2,
                            !.total_in_flight_ = n2]
    ELSE t

in_flight_count(t, agent_id) ==
    IF agent_id \in DOMAIN t.in_flight_ THEN t.in_flight_[agent_id] ELSE 0

tracked_agents(t) == Cardinality(DOMAIN t.in_flight_)

total_in_flight(t) == t.total_in_flight_

quota_rejections(t) == t.quota_rejections_

(***************************************************************************)
(* BoundedForwarder  (src/forwarder.cpp:54-124)                            *)
(***************************************************************************)
\* mutant of try_forward: the reservation is kept when the enqueue fails
try_forward_leaks(event) ==
    LET r == try_reserve(quota_tracker_, event.agent_id) IN
    IF ~r.ok
    THEN /\ quota_tracker_' = r.t
         /\ dropped_quota_' = dropped_quota_ + 1
         /\ last_call' = [op |-> "try_forward", agent_id |-> event.agent_id,
                          result |-> "DroppedAgentQuotaExceeded", write |-> "none"]
         /\ UNCHANGED <<queue_, dropped_queue_full_, queued_log>>
    ELSE LET p == BQ_try_push(queue_, event) IN
         /\ queue_' = p.q
         /\ quota_tracker_' = r.t
         /\ IF p.result = "Dropped"
            THEN /\ dropped_queue_full_' = dropped_queue_full_ + 1
                 /\ last_call' = [op |-> "try_forward",
                                  agent_id |-> event.agent_id,
                                  result |-> "DroppedQueueFull", write |-> "none"]
                 /\ UNCHANGED <<dropped_quota_, queued_log>>
            ELSE /\ queued_log' = Append(queued_log, event)
                 /\ last_call' = [op |-> "try_forward",
                                  agent_id |-> event.agent_id,
                                  result |-> "Queued", write |-> "none"]
                 /\ UNCHANGED <<dropped_quota_, dropped_queue_full_>>

\* mutant of try_forward: capacity is checked before the quota
try_forward_capacity_first(event) ==
    IF BQ_full(queue_)
    THEN /\ queue_' = BQ_try_push(queue_, event).q
         /\ dropped_queue_full_' = dropped_queue_full_ + 1
         /\ last_call' = [op |-> "try_forward", agent_id |-> event.agent_id,
                          result |-> "DroppedQueueFull", write |-> "none"]
         /\ UNCHANGED <<quota_tracker_, dropped_quota_, queued_log>>
    ELSE LET r == try_reserve(quota_tracker_, event.agent_id) IN
         /\ quota_tracker_' = r.t
         /\ IF ~r.ok
            THEN /\ dropped_quota_' = dropped_quota_ + 1
                 /\ last_call' = [op |-> "try_forward",
                                  agent_id |-> event.agent_id,
                                  result |-> "DroppedAgentQuotaExceeded", write |-> "none"]
                 /\ UNCHANGED <<queue_, dropped_queue_full_, queued_log>>
            ELSE /\ queue_' = BQ_try_push(queue_, event).q
                 /\ queued_log' = Append(queued_log, event)
                 /\ last_call' = [op |-> "try_forward",
                                  agent_id |-> event.agent_id,
                                  result |-> "Queued", write |-> "none"]
                 /\ UNCHANGED <<dropped_quota_, dropped_queue_full_>>

try_forward(event) ==
    LET r == try_reserve(quota_tracker_, event.agent_id) IN
    IF ~r.ok
    THEN \* Step 1 failed: agent over quota
         /\ quota_tracker_' = r.t
         /\ dropped_quota_' = dropped_quota_ + 1
         /\ last_call' = [op |-> "try_forward", agent_id |-> event.agent_id,
                          result |-> "DroppedAgentQuotaExceeded", write |-> "none"]
         /\ UNCHANGED <<queue_, dropped_queue_full_, queued_log>>
    ELSE LET p == BQ_try_push(queue_, event) IN
         /\ queue_' = p.q
         /\ IF p.result = "Dropped"
            THEN \* Step 2 failed: release the quota just reserved
                 /\ quota_tracker_' = release(r.t, event.agent_id)
                 /\ dropped_queue_full_' = dropped_queue_full_ + 1
                 /\ last_call' = [op |-> "try_forward",
                                  agent_id |-> event.agent_id,
                                  result |-> "DroppedQueueFull", write |-> "none"]
                 /\ UNCHANGED <<dropped_quota_, queued_log>>
            ELSE /\ quota_tracker_' = r.t
                 /\ queued_log' = Append(queued_log, event)
                 /\ last_call' = [op |-> "try_forward",
                                  agent_id |-> event.agent_id,
                                  result |-> "Queued", write |-> "none"]
                 /\ UNCHANGED <<dropped_quota_, dropped_queue_full_>>

\* mutant of drain_one: the quota is released only when the sink succeeded
drain_one_release_on_success(write_ok) ==
    LET p == BQ_try_pop(queue_, FALSE, NoEvent) IN
    IF ~p.has
    THEN /\ last_call' = [op |-> "drain_one", agent_id |-> "",
                          result |-> "false", write |-> "none"]
         /\ UNCHANGED <<quota_tracker_, queue_, total_forwarded_,
                        sink_failures_, sink_log>>
    ELSE /\ queue_' = p.q
         /\ sink_log' = Append(sink_log, p.item)
         /\ IF write_ok
            THEN /\ quota_tracker_' = release(quota_tracker_, p.item.agent_id)
                 /\ total_forwarded_' = total_forwarded_ + 1
                 /\ UNCHANGED sink_failures_
            ELSE /\ sink_failures_' = sink_failures_ + 1
                 /\ UNCHANGED <<total_forwarded_, quota_tracker_>>
         /\ last_call' = [op |-> "drain_one", agent_id |-> p.item.agent_id,
                          result |-> "true",
                          write |-> IF write_ok THEN "ok" ELSE "failed"]

\* mutant of drain_one: an event whose write failed stays queued for a retry
drain_one_retries_failed_write(write_ok) ==
    LET p == BQ_try_pop(queue_, FALSE, NoEvent) IN
    IF ~p.has
    THEN /\ last_call' = [op |-> "drain_one", agent_id |-> "",
                          result |-> "false", write |-> "none"]
         /\ UNCHANGED <<quota_tracker_, queue_, total_forwarded_,
                        sink_failures_, sink_log>>
    ELSE /\ sink_log' = Append(sink_log, p.item)
         /\ IF write_ok
            THEN /\ queue_' = p.q
                 /\ quota_tracker_' = release(quota_tracker_, p.item.agent_id)
                 /\ total_forwarded_' = total_forwarded_ + 1
                 /\ UNCHANGED sink_failures_
            ELSE /\ sink_failures_' = sink_failures_ + 1
                 /\ UNCHANGED <<queue_, quota_tracker_, total_forwarded_>>
         /\ last_call' = [op |-> "drain_one", agent_id |-> p.item.agent_id,
                          result |-> "true",
                          write |-> IF write_ok THEN "ok" ELSE "failed"]

\* mutant of drain_one: a failed write is counted as forwarded as well
drain_one_counts_failure_twice(write_ok) ==
    LET p == BQ_try_pop(queue_, FALSE, NoEvent) IN
    IF ~p.has
    THEN /\ last_call' = [op |-> "drain_one", agent_id |-> "",
                          result |-> "false", write |-> "none"]
         /\ UNCHANGED <<quota_tracker_, queue_, total_forwarded_,
                        sink_failures_, sink_log>>
    ELSE /\ queue_' = p.q
         /\ quota_tracker_' = release(quota_tracker_, p.item.agent_id)
         /\ sink_log' = Append(sink_log, p.item)
         /\ total_forwarded_' = total_forwarded_ + 1
         /\ IF write_ok
            THEN UNCHANGED sink_failures_
            ELSE sink_failures_' = sink_failures_ + 1
         /\ last_call' = [op |-> "drain_one", agent_id |-> p.item.agent_id,
                          result |-> "true",
                          write |-> IF write_ok THEN "ok" ELSE "failed"]

\* write_ok is what Sink::write returns for this event
drain_one(write_ok) ==
    LET p == BQ_try_pop(queue_, FALSE, NoEvent) IN
    IF ~p.has
    THEN \* queue was empty
         /\ last_call' = [op |-> "drain_one", agent_id |-> "",
                          result |-> "false", write |-> "none"]
         /\ UNCHANGED <<quota_tracker_, queue_, total_forwarded_,
                        sink_failures_, sink_log>>
    ELSE /\ queue_' = p.q
         /\ quota_tracker_' = release(quota_tracker_, p.item.agent_id)
         /\ sink_log' = Append(sink_log, p.item)
         /\ IF write_ok
            THEN /\ total_forwarded_' = total_forwarded_ + 1
                 /\ UNCHANGED sink_failures_
            ELSE /\ sink_failures_' = sink_failures_ + 1
                 /\ UNCHANGED total_forwarded_
         /\ last_call' = [op |-> "drain_one", agent_id |-> p.item.agent_id,
                          result |-> "true",
                          write |-> IF write_ok THEN "ok" ELSE "failed"]

queue_depth == BQ_size(queue_)

queue_capacity == BQ_capacity(queue_)

queue_empty == BQ_empty(queue_)

(***************************************************************************)
(* SourceLimiter  (src/source_limiter.cpp, include/gateway/source_limiter.hpp) *)
(*                                                                         *)
(* steady_clock::time_point is a whole number of ticks; TicksPerSec ticks  *)
(* make one second.  Bucket::tokens is held in units of 1/TicksPerSec      *)
(* token, so that elapsed_seconds * tokens_per_sec is the whole number     *)
(* elapsed_ticks * tokens_per_sec and the arithmetic is exact (rounding of *)
(* the double is not modelled).                                            *)
(***************************************************************************)
\* ticks of the clock per second: duration<double>(now - last_update)
TicksPerSec == 2

\* one whole token, the 1.0 of `tokens >= 1.0' and `tokens -= 1.0'
OneToken == TicksPerSec

\* SourceKey values: equality is over both ip and port
Sources == {[ip |-> 1, port |-> 1], [ip |-> 1, port |-> 2],
            [ip |-> 2, port |-> 1]}

\* clock readings
Times == 0 .. MaxTime

\* SourceLimiter(config, clock): empty map, empty LRU list, zero counters
SourceLimiter(config) ==
    [config_         |-> config,
     sources_        |-> << >>,
     lru_list_       |-> << >>,
     total_admits_   |-> 0,
     total_drops_    |-> 0,
     eviction_count_ |-> 0]

\* std::list::erase of the node holding key (Entry::lru_pos points at it)
ListErase(list, key) == SelectSeq(list, LAMBDA k : k # key)

\* std::list::push_front
PushFront(list, key) == <<key>> \o list

\* std::list::pop_back
PopBack(list) == SubSeq(list, 1, Len(list) - 1)

Min(a, b) == IF a <= b THEN a ELSE b

\* refill_bucket(bucket); now is what clock_() returns inside it
refill_bucket(l, bucket, now) ==
    LET tokens_to_add == (now - bucket.last_update) * l.config_.tokens_per_sec
    IN  [tokens      |-> Min(bucket.tokens + tokens_to_add,
                             l.config_.burst_tokens * OneToken),
         last_update |-> now]

evict_lru(l) ==
    IF l.lru_list_ = << >>
    THEN l
    ELSE LET victim == l.lru_list_[Len(l.lru_list_)] IN
         [l EXCEPT !.sources_ = Erase(l.sources_, victim),
                   !.lru_list_ = PopBack(l.lru_list_),
                   !.eviction_count_ = @ + 1]

\* mutant of admit: an Allow also spends the tokens of every other source
admit_shared_budget(l, source, now, now_refill) ==
    LET found == source \in DOMAIN l.sources_
        l1 == IF found
              THEN \* existing source: move to front of LRU
                   [l EXCEPT !.lru_list_ =
                                PushFront(ListErase(l.lru_list_, source),
                                          source)]
              ELSE \* new source: evict if at capacity, then full bucket
                   LET e == IF Cardinality(DOMAIN l.sources_)
                                 >= l.config_.max_sources
                            THEN evict_lru(l) ELSE l
                   IN  [e EXCEPT !.lru_list_ = PushFront(e.lru_list_, source),
                                 !.sources_ = e.sources_ @@
                                    (source :>
                                       [tokens |-> l.config_.burst_tokens
                                                      * OneToken,
                                        last_update |-> now])]
        b  == refill_bucket(l1, l1.sources_[source], now_refill)
    IN  IF b.tokens >= OneToken
        THEN [l |-> [l1 EXCEPT !.sources_ =
                                   [k \in DOMAIN l1.sources_ |->
                                      IF k = source
                                      THEN [b EXCEPT !.tokens = @ - OneToken]
                                      ELSE [l1.sources_[k] EXCEPT
                                              !.tokens = 0]],
                               !.total_admits_ = @ + 1],
              result |-> "Allow"]
        ELSE [l |-> [l1 EXCEPT !.sources_[source] = b,
                               !.total_drops_ = @ + 1],
              result |-> "Drop"]

\* admit(source); now is the clock reading taken on entry, now_refill the
\* one taken inside refill_bucket
admit(l, source, now, now_refill) ==
    LET found == source \in DOMAIN l.sources_
        l1 == IF found
              THEN \* existing source: move to front of LRU
                   [l EXCEPT !.lru_list_ =
                                PushFront(ListErase(l.lru_list_, source),
                                          source)]
              ELSE \* new source: evict if at capacity, then full bucket
                   LET e == IF Cardinality(DOMAIN l.sources_)
                                 >= l.config_.max_sources
                            THEN evict_lru(l) ELSE l
                   IN  [e EXCEPT !.lru_list_ = PushFront(e.lru_list_, source),
                                 !.sources_ = e.sources_ @@
                                    (source :>
                                       [tokens |-> l.config_.burst_tokens
                                                      * OneToken,
                                        last_update |-> now])]
        b  == refill_bucket(l1, l1.sources_[source], now_refill)
    IN  IF b.tokens >= OneToken
        THEN [l |-> [l1 EXCEPT !.sources_[source] =
                                   [b EXCEPT !.tokens = @ - OneToken],
                               !.total_admits_ = @ + 1],
              result |-> "Allow"]
        ELSE [l |-> [l1 EXCEPT !.sources_[source] = b,
                               !.total_drops_ = @ + 1],
              result |-> "Drop"]

tracked_count(l) == Cardinality(DOMAIN l.sources_)

is_tracked(l, source) == source \in DOMAIN l.sources_

eviction_count(l) == l.eviction_count_

(***************************************************************************)
(* parse_envelope  (src/parse_envelope.cpp)                                *)
(*                                                                         *)
(* A payload is its size and its first two bytes; parse_envelope reads     *)
(* nothing else.  A ParsedBody is the subspan it views: offset and count.  *)
(***************************************************************************)
\* the cap parse_envelope compares the payload size with (the value is the
\* one given next to the comparison)
kMaxDatagramBytes == 1500

\* std::numeric_limits<uint16_t>::max() + 1
TwoPow16 == 65536

Payload(size, b0, b1) == [size |-> size, b0 |-> b0, b1 |-> b1]

Dropped(reason) == [kind |-> reason, offset |-> 0, count |-> 0]

ParsedBody(offset, count) ==
    [kind |-> "ParsedBody", offset |-> offset, count |-> count]

parse_envelope(payload) ==
    IF payload.size > kMaxDatagramBytes THEN Dropped("PayloadTooLarge")
    ELSE IF payload.size < 2 THEN Dropped("PayloadTooSmall")
    ELSE LET claimed_len == (payload.b0 * 256 + payload.b1) % TwoPow16
             expected_total == 2 + claimed_len
         IN  IF expected_total > payload.size
             THEN Dropped("LengthMismatch")
             ELSE IF expected_total < payload.size
             THEN Dropped("TrailingJunk")
             ELSE ParsedBody(2, claimed_len)

\* state of parse_envelope's observers while another component is the
\* system
EnvIdle ==
    /\ env_payload = Payload(0, 0, 0)
    /\ env_result = Dropped("none")
    /\ env_prev = [payload |-> Payload(0, 0, 0), result |-> Dropped("none")]

(***************************************************************************)
(* TB-4 validation  (src/validate_config.cpp, src/validate_metrics.cpp,    *)
(* src/validate_log.cpp)                                                   *)
(*                                                                         *)
(* std::uint64_t and std::int64_t are scaled to TsBits bits.  A string is  *)
(* the sequence of its character codes.  A double is its class (nan, inf,  *)
(* -inf, finite) and, when finite, an integer value.                       *)
(***************************************************************************)
\* number of values of the scaled std::uint64_t
TwoPowTs == 2 ^ TsBits

\* the scaled std::uint64_t and std::int64_t
Uint64 == 0 .. TwoPowTs - 1
Int64 == -(TwoPowTs \div 2) .. (TwoPowTs \div 2) - 1

\* static_cast<std::uint64_t> of a std::int64_t
ToUint64(x) == x % TwoPowTs

\* AgentIdRules
kMinLength == 1
kMaxLength == 64

IsLetter(c) == (c >= 97 /\ c <= 122) \/ (c >= 65 /\ c <= 90)

IsDigit(c) == c >= 48 /\ c <= 57

validate_agent_id_format(data, len) ==
    IF len < kMinLength \/ len > kMaxLength THEN FALSE
    ELSE IF ~IsLetter(data[1]) THEN FALSE
    ELSE \A i \in 2 .. len :
            IsLetter(data[i]) \/ IsDigit(data[i])
               \/ data[i] = 95 \/ data[i] = 45

\* lower bound of the window as both validators and
\* validate_timestamp_window compute it
min_allowed(current_time_ms, window) ==
    IF current_time_ms > ToUint64(window.max_age_ms)
    THEN current_time_ms - ToUint64(window.max_age_ms)
    ELSE 0

validate_timestamp_window(ts, current_time_ms, window) ==
    LET max_allowed ==
           (current_time_ms + ToUint64(window.max_future_ms)) % TwoPowTs
    IN  ts >= min_allowed(current_time_ms, window) /\ ts <= max_allowed

\* a double
Nan == [class |-> "nan", v |-> 0]
Inf == [class |-> "inf", v |-> 0]
NegInf == [class |-> "-inf", v |-> 0]
Finite(v) == [class |-> "finite", v |-> v]

isnan(x) == x.class = "nan"

isinf(x) == x.class \in {"inf", "-inf"}

\* MetricsValidationDrop, in the shape of a ValidatedMetrics
MetricsDrop(reason) ==
    [kind |-> reason, agent_id |-> << >>, seq |-> 0, ts |-> 0,
     metrics |-> << >>, metric_count |-> 0]

\* the loop over parsed.metrics from index i on: the first drop reason, or
\* "" when every metric passes
RECURSIVE validate_each_metric(_, _, _)
validate_each_metric(parsed, config, i) ==
    IF i > parsed.metric_count THEN ""
    ELSE LET m == parsed.metrics[i] IN
         IF m.name = << >> THEN "MetricNameEmpty"
         ELSE IF config.value_rules.reject_nan /\ isnan(m.value)
         THEN "MetricValueNaN"
         ELSE IF config.value_rules.reject_infinity /\ isinf(m.value)
         THEN "MetricValueInfinity"
         ELSE IF ~isnan(m.value) /\ ~isinf(m.value)
                 /\ m.value.v < config.value_rules.min_value
         THEN "MetricValueTooLow"
         ELSE IF ~isnan(m.value) /\ ~isinf(m.value)
                 /\ m.value.v > config.value_rules.max_value
         THEN "MetricValueTooHigh"
         ELSE validate_each_metric(parsed, config, i + 1)

\* mutant of validate_metrics: the missing timestamp is reported first
validate_metrics_timestamp_first(parsed, config, current_time_ms) ==
    IF config.require_timestamp /\ parsed.ts = 0
    THEN MetricsDrop("TimestampMissing")
    ELSE IF parsed.agent_id = << >> THEN MetricsDrop("AgentIdEmpty")
    ELSE IF Len(parsed.agent_id) > kMaxLength
    THEN MetricsDrop("AgentIdTooLong")
    ELSE IF ~validate_agent_id_format(parsed.agent_id, Len(parsed.agent_id))
    THEN MetricsDrop("AgentIdInvalidFormat")
    ELSE IF config.require_timestamp /\ parsed.ts = 0
    THEN MetricsDrop("TimestampMissing")
    ELSE IF parsed.ts # 0
            /\ ~validate_timestamp_window(parsed.ts, current_time_ms,
                                          config.timestamp_window)
    THEN IF parsed.ts < min_allowed(current_time_ms, config.timestamp_window)
         THEN MetricsDrop("TimestampTooOld")
         ELSE MetricsDrop("TimestampInFuture")
    ELSE LET drop == validate_each_metric(parsed, config, 1) IN
         IF drop # "" THEN MetricsDrop(drop)
         ELSE [kind |-> "ValidatedMetrics",
               agent_id |-> parsed.agent_id,
               seq |-> parsed.seq,
               ts |-> parsed.ts,
               metrics |-> parsed.metrics,
               metric_count |-> parsed.metric_count]

validate_metrics(parsed, config, current_time_ms) ==
    IF parsed.agent_id = << >> THEN MetricsDrop("AgentIdEmpty")
    ELSE IF Len(parsed.agent_id) > kMaxLength
    THEN MetricsDrop("AgentIdTooLong")
    ELSE IF ~validate_agent_id_format(parsed.agent_id, Len(parsed.agent_id))
    THEN MetricsDrop("AgentIdInvalidFormat")
    ELSE IF config.require_timestamp /\ parsed.ts = 0
    THEN MetricsDrop("TimestampMissing")
    ELSE IF parsed.ts # 0
            /\ ~validate_timestamp_window(parsed.ts, current_time_ms,
                                          config.timestamp_window)
    THEN IF parsed.ts < min_allowed(current_time_ms, config.timestamp_window)
         THEN MetricsDrop("TimestampTooOld")
         ELSE MetricsDrop("TimestampInFuture")
    ELSE LET drop == validate_each_metric(parsed, config, 1) IN
         IF drop # "" THEN MetricsDrop(drop)
         ELSE [kind |-> "ValidatedMetrics",
               agent_id |-> parsed.agent_id,
               seq |-> parsed.seq,
               ts |-> parsed.ts,
               metrics |-> parsed.metrics,
               metric_count |-> parsed.metric_count]

\* LogValidationDrop, in the shape of a ValidatedLog
LogDrop(reason) ==
    [kind |-> reason, agent_id |-> << >>, ts |-> 0, level |-> 0,
     msg |-> << >>, field_count |-> 0]

\* mutant of substr: keeps the last count characters instead of the first
Substr_keeps_tail(str, count) ==
    SubSeq(str, Len(str) - Min(count, Len(str)) + 1, Len(str))

\* std::string_view::substr(0, count)
Substr(str, count) == SubSeq(str, 1, Min(count, Len(str)))

\* mutant of validate_log: a level equal to min_level is rejected as well
validate_log_level_strict(parsed, config, current_time_ms) ==
    IF parsed.agent_id # << >> /\ Len(parsed.agent_id) > kMaxLength
    THEN LogDrop("AgentIdTooLong")
    ELSE IF parsed.agent_id # << >>
            /\ ~validate_agent_id_format(parsed.agent_id,
                                         Len(parsed.agent_id))
    THEN LogDrop("AgentIdInvalidFormat")
    ELSE IF parsed.agent_id = << >> /\ config.require_agent_id
    THEN LogDrop("AgentIdEmpty")
    ELSE IF ~validate_timestamp_window(parsed.ts, current_time_ms,
                                       config.timestamp_window)
    THEN IF parsed.ts < min_allowed(current_time_ms, config.timestamp_window)
         THEN LogDrop("TimestampTooOld")
         ELSE LogDrop("TimestampInFuture")
    ELSE IF parsed.level <= config.min_level
    THEN LogDrop("LevelBelowMinimum")
    ELSE IF parsed.msg = << >> THEN LogDrop("MessageEmpty")
    ELSE IF Len(parsed.msg) > config.max_message_length
            /\ ~config.truncate_oversized_message
    THEN LogDrop("MessageTooLong")
    ELSE [kind |-> "ValidatedLog",
          agent_id |-> parsed.agent_id,
          ts |-> parsed.ts,
          level |-> parsed.level,
          msg |-> IF Len(parsed.msg) > config.max_message_length
                  THEN Substr(parsed.msg, config.max_message_length)
                  ELSE parsed.msg,
          field_count |-> parsed.field_count]

\* mutant of validate_log: the empty message is not rejected
validate_log_accepts_empty(parsed, config, current_time_ms) ==
    IF parsed.agent_id # << >> /\ Len(parsed.agent_id) > kMaxLength
    THEN LogDrop("AgentIdTooLong")
    ELSE IF parsed.agent_id # << >>
            /\ ~validate_agent_id_format(parsed.agent_id,
                                         Len(parsed.agent_id))
    THEN LogDrop("AgentIdInvalidFormat")
    ELSE IF parsed.agent_id = << >> /\ config.require_agent_id
    THEN LogDrop("AgentIdEmpty")
    ELSE IF ~validate_timestamp_window(parsed.ts, current_time_ms,
                                       config.timestamp_window)
    THEN IF parsed.ts < min_allowed(current_time_ms, config.timestamp_window)
         THEN LogDrop("TimestampTooOld")
         ELSE LogDrop("TimestampInFuture")
    ELSE IF parsed.level < config.min_level
    THEN LogDrop("LevelBelowMinimum")
    ELSE IF Len(parsed.msg) > config.max_message_length
            /\ ~config.truncate_oversized_message
    THEN LogDrop("MessageTooLong")
    ELSE [kind |-> "ValidatedLog",
          agent_id |-> parsed.agent_id,
          ts |-> parsed.ts,
          level |-> parsed.level,
          msg |-> IF Len(parsed.msg) > config.max_message_length
                  THEN Substr(parsed.msg, config.max_message_length)
                  ELSE parsed.msg,
          field_count |-> parsed.field_count]

validate_log(parsed, config, current_time_ms) ==
    IF parsed.agent_id # << >> /\ Len(parsed.agent_id) > kMaxLength
    THEN LogDrop("AgentIdTooLong")
    ELSE IF parsed.agent_id # << >>
            /\ ~validate_agent_id_format(parsed.agent_id,
                                         Len(parsed.agent_id))
    THEN LogDrop("AgentIdInvalidFormat")
    ELSE IF parsed.agent_id = << >> /\ config.require_agent_id
    THEN LogDrop("AgentIdEmpty")
    ELSE IF ~validate_timestamp_window(parsed.ts, current_time_ms,
                                       config.timestamp_window)
    THEN IF parsed.ts < min_allowed(current_time_ms, config.timestamp_window)
         THEN LogDrop("TimestampTooOld")
         ELSE LogDrop("TimestampInFuture")
    ELSE IF parsed.level < config.min_level THEN LogDrop("LevelBelowMinimum")
    ELSE IF parsed.msg = << >> THEN LogDrop("MessageEmpty")
    ELSE IF Len(parsed.msg) > config.max_message_length
            /\ ~config.truncate_oversized_message
    THEN LogDrop("MessageTooLong")
    ELSE [kind |-> "ValidatedLog",
          agent_id |-> parsed.agent_id,
          ts |-> parsed.ts,
          level |-> parsed.level,
          msg |-> IF Len(parsed.msg) > config.max_message_length
                  THEN Substr(parsed.msg, config.max_message_length)
                  ELSE parsed.msg,
          field_count |-> parsed.field_count]

\* state of the validators' observers while another component is the system
ValIdle ==
    /\ met_input = [parsed |-> MetricsDrop("none"), current_time_ms |-> 0]
    /\ met_result = MetricsDrop("none")
    /\ log_input = [parsed |-> LogDrop("none"), current_time_ms |-> 0]
    /\ log_result = LogDrop("none")
    /\ log_again = LogDrop("none")

PlogIdle ==
    /\ plog_input = <<>>
    /\ plog_result = [kind |-> "none"]

PmIdle ==
    /\ pm_input = [counts |-> <<>>, tags |-> <<>>, made |-> FALSE,
                   tokens |-> <<>>]
    /\ pm_result = [kind |-> "none"]

\* state of the receive loop while another component is the system
RvIdle ==
    /\ recv_loop = [fd_ |-> -1]
    /\ rv_last = [kernel |-> [n |-> 0], result |-> [status |-> "none"]]
    /\ rv_calls = 0

DaIdle == drained = 0

\* state of the loop of main while another component is the system
GwIdle ==
    /\ stats = [received |-> 0]
    /\ gw_last = [status |-> "idle"]
    /\ gw_iterations = 0

HostIdle == RvIdle /\ DaIdle /\ GwIdle

MoreIdle == PlogIdle /\ PmIdle /\ HostIdle

PureIdle == EnvIdle /\ ValIdle /\ MoreIdle

\* state of the limiter while another component is the system
LimIdle ==
    /\ limiter = SourceLimiter([max_sources |-> 0, tokens_per_sec |-> 0,
                                burst_tokens |-> 0])
    /\ clock_now = 0
    /\ allow_count = [s \in Sources |-> [t \in Times |-> 0]]
    /\ insertions = 0
    /\ lim_last = [op |-> "none", source |-> [ip |-> 0, port |-> 0],
                   result |-> "none", solo_result |-> "none"]
    /\ admit_calls = 0
    /\ recency = << >>
    /\ solo = [s \in Sources |-> limiter]

\* state of the stand-alone queue while the forwarder is the system
BqIdle ==
    /\ bq = BoundedQueue(0, 0)
    /\ bq_fifo = << >>
    /\ bq_last = [op |-> "none", result |-> "none", value |-> 0,
                  fifo_result |-> "none", fifo_value |-> 0]
    /\ bq_pushes = 0
    /\ bq_dropped = 0

\* state of the forwarder while another component is the system
FwdIdle ==
    /\ config_ = [max_queue_depth |-> 0, max_per_agent |-> 0]
    /\ quota_tracker_ = AgentQuotaTracker(0)
    /\ queue_ = BoundedQueue(0, NoEvent)
    /\ total_forwarded_ = 0
    /\ dropped_queue_full_ = 0
    /\ dropped_quota_ = 0
    /\ sink_failures_ = 0
    /\ next_id = 1
    /\ last_call = [op |-> "none", agent_id |-> "", result |-> "none",
                    write |-> "none"]
    /\ queued_log = << >>
    /\ sink_log = << >>

\* BoundedForwarder(config, sink) for every ForwarderConfig within the bounds
Init ==
    /\ config_ \in [max_queue_depth : 0 .. MaxQueueDepth,
                    max_per_agent   : 0 .. MaxPerAgent]
    /\ quota_tracker_ = AgentQuotaTracker(config_.max_per_agent)
    /\ queue_ = BoundedQueue(config_.max_queue_depth, NoEvent)
    /\ total_forwarded_ = 0
    /\ dropped_queue_full_ = 0
    /\ dropped_quota_ = 0
    /\ sink_failures_ = 0
    /\ next_id = 1
    /\ last_call = [op |-> "none", agent_id |-> "", result |-> "none",
                    write |-> "none"]
    /\ queued_log = << >>
    /\ sink_log = << >>
    /\ BqIdle
    /\ LimIdle
    /\ PureIdle

\* a caller hands a fresh event of some agent to try_forward
TryForward ==
    /\ next_id <= MaxForwardCalls
    /\ \E a \in Agents : try_forward([agent_id |-> a, payload |-> next_id])
    /\ next_id' = next_id + 1
    /\ UNCHANGED <<config_, total_forwarded_, sink_failures_, sink_log>>
    /\ UNCHANGED <<bq_vars, lim_vars, pure_vars>>

\* a caller runs drain_one; the sink accepts or rejects the write
DrainOne ==
    /\ \E write_ok \in BOOLEAN : drain_one(write_ok)
    /\ UNCHANGED <<config_, dropped_queue_full_, dropped_quota_, next_id,
                   queued_log>>
    /\ UNCHANGED <<bq_vars, lim_vars, pure_vars>>

Next == TryForward \/ DrainOne

Spec == Init /\ [][Next]_vars

(***************************************************************************)
(* Claims about the BoundedForwarder, checked under Spec                   *)
(***************************************************************************)
RECURSIVE SumCounts(_)
\* sum of the counts held in an in-flight map
SumCounts(m) ==
    IF DOMAIN m = {} THEN 0
    ELSE LET k == CHOOSE x \in DOMAIN m : TRUE IN m[k] + SumCounts(Erase(m, k))

\* the events currently held by the forwarder's queue
QueuedEvents == {queue_.buffer_[(queue_.head_ + k - 1) % queue_.capacity_] :
                    k \in 1 .. queue_.size_}

\* this step is a call of try_forward (every call consumes one payload id)
IsTryForwardStep == next_id' = next_id + 1

\* this step is a call of drain_one
IsDrainOneStep == next_id' = next_id

\* C1: at every call boundary the per-agent in-flight counts add up to the
\* queue depth, total_in_flight() is that same number, and no agent holds
\* more than max_per_agent reservations.
C1_QuotaMatchesQueue ==
    /\ SumCounts(quota_tracker_.in_flight_) = queue_depth
    /\ total_in_flight(quota_tracker_) = queue_depth
    /\ \A a \in Agents :
          in_flight_count(quota_tracker_, a) <= config_.max_per_agent

C1_Witness ==
    /\ queue_depth >= 2
    /\ dropped_queue_full_ >= 1
    /\ Len(sink_log) >= 1
    /\ Cardinality({e.agent_id : e \in QueuedEvents}) = 2

\* C2: try_forward on a full queue by an agent below its quota returns
\* DroppedQueueFull and keeps no reservation: in-flight counts, tracked
\* agents, total in flight and the queue contents are as before the call and
\* of the forwarder's counters only total_dropped_queue_full grew, by one.
C2_QueueFullLeaksNothing ==
    [][ ( /\ IsTryForwardStep
          /\ BQ_full(queue_)
          /\ in_flight_count(quota_tracker_, last_call'.agent_id)
                < config_.max_per_agent )
        => /\ last_call'.result = "DroppedQueueFull"
           /\ \A a \in Agents : in_flight_count(quota_tracker_', a)
                                  = in_flight_count(quota_tracker_, a)
           /\ quota_tracker_'.in_flight_ = quota_tracker_.in_flight_
           /\ tracked_agents(quota_tracker_') = tracked_agents(quota_tracker_)
           /\ total_in_flight(quota_tracker_') = total_in_flight(quota_tracker_)
           /\ quota_rejections(quota_tracker_') = quota_rejections(quota_tracker_)
           /\ BQ_contents(queue_') = BQ_contents(queue_)
           /\ queue_'.head_ = queue_.head_
           /\ queue_'.tail_ = queue_.tail_
           /\ dropped_queue_full_' = dropped_queue_full_ + 1
           /\ dropped_quota_' = dropped_quota_
           /\ total_forwarded_' = total_forwarded_
           /\ sink_failures_' = sink_failures_ ]_vars

C2_Witness ==
    /\ last_call.op = "try_forward"
    /\ last_call.result = "DroppedQueueFull"
    /\ queue_depth = queue_capacity
    /\ queue_capacity >= 1
    /\ in_flight_count(quota_tracker_, last_call.agent_id) = 0
    /\ last_call.agent_id \notin DOMAIN quota_tracker_.in_flight_
    /\ config_.max_per_agent >= 1

\* C6: the events handed to Sink::write are a prefix of the events for which
\* try_forward returned Queued, in the same order; what was queued and not
\* yet written is exactly the queue, oldest first.
C6_SinkOrderIsQueuedOrder ==
    /\ Len(sink_log) <= Len(queued_log)
    /\ \A i \in 1 .. Len(sink_log) : sink_log[i] = queued_log[i]
    /\ queued_log = sink_log \o BQ_contents(queue_)

C6_Witness ==
    /\ Len(sink_log) >= 3
    /\ Len(queued_log) > Len(sink_log)
    /\ dropped_queue_full_ + dropped_quota_ >= 1
    /\ Cardinality({sink_log[i].agent_id : i \in 1 .. Len(sink_log)}) = 2

\* the event that was enqueued first among those still queued
Oldest == CHOOSE e \in QueuedEvents :
              \A f \in QueuedEvents : e.payload <= f.payload

\* C7: drain_one on a non-empty queue returns true, removes exactly the
\* oldest event, hands it to the sink once and releases one reservation of
\* its agent whether the write succeeds or fails; a failed write adds one to
\* total_sink_failures and leaves total_forwarded alone, and the event is not
\* put back.  On an empty queue it returns false and changes nothing.
C7_DrainOneAlwaysReleases ==
    [][ IsDrainOneStep =>
        IF BQ_empty(queue_)
        THEN /\ last_call'.result = "false"
             /\ UNCHANGED <<quota_tracker_, queue_, total_forwarded_,
                            sink_failures_, dropped_queue_full_,
                            dropped_quota_, sink_log, queued_log>>
        ELSE /\ last_call'.result = "true"
             /\ BQ_contents(queue_') = Tail(BQ_contents(queue_))
             /\ Head(BQ_contents(queue_)) = Oldest
             /\ Oldest \notin QueuedEvents'
             /\ sink_log' = Append(sink_log, Oldest)
             /\ \A a \in Agents :
                   in_flight_count(quota_tracker_', a) =
                      in_flight_count(quota_tracker_, a)
                         - (IF a = Oldest.agent_id THEN 1 ELSE 0)
             /\ total_in_flight(quota_tracker_') =
                   total_in_flight(quota_tracker_) - 1
             /\ last_call'.write \in {"ok", "failed"}
             /\ last_call'.write = "failed" =>
                   /\ sink_failures_' = sink_failures_ + 1
                   /\ total_forwarded_' = total_forwarded_
             /\ last_call'.write = "ok" =>
                   /\ total_forwarded_' = total_forwarded_ + 1
                   /\ sink_failures_' = sink_failures_ ]_vars

C7_Witness ==
    /\ last_call.op = "drain_one"
    /\ last_call.write = "failed"
    /\ sink_failures_ >= 1
    /\ queue_depth >= 1
    /\ in_flight_count(quota_tracker_, last_call.agent_id) = 0

\* every queued event belongs to agent x
OnlyAgentQueued(x) == \A e \in QueuedEvents : e.agent_id = x

C9_QuotaBeforeCapacity ==
    [][ IsTryForwardStep =>
        LET a == last_call'.agent_id IN
        IF in_flight_count(quota_tracker_, a) >= config_.max_per_agent
        THEN /\ last_call'.result = "DroppedAgentQuotaExceeded"
             /\ dropped_quota_' = dropped_quota_ + 1
             /\ quota_rejections(quota_tracker_') =
                   quota_rejections(quota_tracker_) + 1
             /\ dropped_queue_full_' = dropped_queue_full_
             /\ queue_' = queue_
             /\ \A b \in Agents : in_flight_count(quota_tracker_', b)
                                    = in_flight_count(quota_tracker_, b)
             /\ total_in_flight(quota_tracker_') =
                   total_in_flight(quota_tracker_)
        ELSE IF BQ_full(queue_)
        THEN last_call'.result = "DroppedQueueFull"
        ELSE /\ last_call'.result = "Queued"
             /\ in_flight_count(quota_tracker_', a) =
                   in_flight_count(quota_tracker_, a) + 1
             /\ queue_depth' = queue_depth + 1 ]_vars

C9_Witness ==
    /\ last_call.op = "try_forward"
    /\ last_call.result = "DroppedAgentQuotaExceeded"
    /\ BQ_full(queue_)
    /\ queue_capacity >= 1
    /\ in_flight_count(quota_tracker_, last_call.agent_id)
          = config_.max_per_agent

(***************************************************************************)
(* Stand-alone BoundedQueue<int> driven by arbitrary callers, next to the  *)
(* bounded FIFO sequence it has to behave like                             *)
(***************************************************************************)
\* BoundedQueue<int>(capacity) for every capacity within the bound
QueueInit ==
    /\ bq \in {BoundedQueue(c, 0) : c \in 0 .. MaxCapacity}
    /\ bq_fifo = << >>
    /\ bq_last = [op |-> "none", result |-> "none", value |-> 0,
                  fifo_result |-> "none", fifo_value |-> 0]
    /\ bq_pushes = 0
    /\ bq_dropped = 0
    /\ FwdIdle
    /\ LimIdle
    /\ PureIdle

BqTryPush ==
    /\ bq_pushes < MaxPushCalls
    /\ \E v \in Values :
          LET p == BQ_try_push(bq, v)
              room == Len(bq_fifo) < bq.capacity_
          IN  /\ bq' = p.q
              /\ bq_fifo' = IF room THEN Append(bq_fifo, v) ELSE bq_fifo
              /\ bq_last' = [op |-> "try_push", result |-> p.result,
                             value |-> v,
                             fifo_result |-> IF room THEN "Ok" ELSE "Dropped",
                             fifo_value |-> v]
              /\ bq_dropped' = IF p.result = "Dropped"
                               THEN bq_dropped + 1 ELSE bq_dropped
    /\ bq_pushes' = bq_pushes + 1
    /\ UNCHANGED <<fwd_vars, lim_vars, pure_vars>>

BqTryPop ==
    /\ LET p == BQ_try_pop(bq, TRUE, 0)
           some == bq_fifo # << >>
       IN  /\ bq' = p.q
           /\ bq_fifo' = IF some THEN Tail(bq_fifo) ELSE bq_fifo
           /\ bq_last' = [op |-> "try_pop",
                          result |-> IF p.has THEN "value" ELSE "nullopt",
                          value |-> p.item,
                          fifo_result |-> IF some THEN "value" ELSE "nullopt",
                          fifo_value |-> IF some THEN Head(bq_fifo) ELSE 0]
    /\ UNCHANGED <<bq_pushes, bq_dropped, fwd_vars, lim_vars, pure_vars>>

BqPeek ==
    /\ LET p == BQ_peek(bq, 0)
           some == bq_fifo # << >>
       IN  bq_last' = [op |-> "peek",
                       result |-> IF p.has THEN "value" ELSE "nullptr",
                       value |-> p.item,
                       fifo_result |-> IF some THEN "value" ELSE "nullptr",
                       fifo_value |-> IF some THEN Head(bq_fifo) ELSE 0]
    /\ UNCHANGED <<bq, bq_fifo, bq_pushes, bq_dropped>>
    /\ UNCHANGED <<fwd_vars, lim_vars, pure_vars>>

BqResetDropCount ==
    /\ bq' = BQ_reset_drop_count(bq)
    /\ bq_last' = [op |-> "reset_drop_count", result |-> "none", value |-> 0,
                   fifo_result |-> "none", fifo_value |-> 0]
    /\ bq_dropped' = 0
    /\ UNCHANGED <<bq_fifo, bq_pushes, fwd_vars, lim_vars, pure_vars>>

QueueNext == BqTryPush \/ BqTryPop \/ BqPeek \/ BqResetDropCount

SpecQueue == QueueInit /\ [][QueueNext]_vars

(***************************************************************************)
(* Claims about the BoundedQueue, checked under SpecQueue                  *)
(***************************************************************************)
\* every call returned what the bounded FIFO sequence returns, the ring holds
\* the sequence's contents in order, and a peek shows the value the next
\* try_pop will return
BqBehavesAsFifo ==
    /\ BQ_contents(bq) = bq_fifo
    /\ bq_last.result = bq_last.fifo_result
    /\ bq_last.value = bq_last.fifo_value
    /\ bq_last.op = "peek" =>
          IF bq_fifo = << >> THEN bq_last.result = "nullptr"
          ELSE bq_last.result = "value" /\ bq_last.value = Head(bq_fifo)

\* C10 as claimed, for every capacity C: 0 <= size <= C, pops return the
\* successful pushes in push order, peek returns what the next pop returns,
\* head and tail stay below C and tail = (head + size) mod C.
C10_Original ==
    /\ 0 <= bq.size_
    /\ bq.size_ <= bq.capacity_
    /\ bq.head_ < bq.capacity_
    /\ bq.tail_ < bq.capacity_
    /\ bq.tail_ = (bq.head_ + bq.size_) % bq.capacity_
    /\ BqBehavesAsFifo

\* C10 amended: the same for every capacity C >= 1; a queue of capacity 0
\* keeps head = tail = size = 0 (there is no index below C) and still behaves
\* as the bounded FIFO sequence of capacity 0.
C10_RingRefinesFifo ==
    /\ 0 <= bq.size_
    /\ bq.size_ <= bq.capacity_
    /\ bq.capacity_ >= 1 =>
          /\ bq.head_ < bq.capacity_
          /\ bq.tail_ < bq.capacity_
          /\ bq.tail_ = (bq.head_ + bq.size_) % bq.capacity_
    /\ bq.capacity_ = 0 => bq.head_ = 0 /\ bq.tail_ = 0
    /\ BqBehavesAsFifo

\* five pushes went through a ring of two slots: head and tail have wrapped
\* twice, and the last call popped a value
C10_Witness ==
    /\ bq.capacity_ = 2
    /\ bq.drop_count_ = 0
    /\ bq_pushes >= 5
    /\ bq.size_ = 1
    /\ bq_last.op = "try_pop"
    /\ bq_last.result = "value"

(***************************************************************************)
(* SourceLimiter driven by arbitrary callers.  Under SpecLimiter the clock *)
(* is steady (never goes back); under SpecLimiterAnyClock the injected     *)
(* clock may return any reading.                                           *)
(***************************************************************************)
\* SourceLimiter(config, clock) for every SourceLimiterConfig in the bounds
LimiterInit ==
    /\ limiter \in {SourceLimiter(c) :
                      c \in [max_sources    : 0 .. MaxSources,
                             tokens_per_sec : 1 .. MaxRate,
                             burst_tokens   : 0 .. MaxBurst]}
    /\ clock_now = 0
    /\ allow_count = [s \in Sources |-> [t \in Times |-> 0]]
    /\ insertions = 0
    /\ lim_last = [op |-> "none", source |-> [ip |-> 0, port |-> 0],
                   result |-> "none", solo_result |-> "none"]
    /\ admit_calls = 0
    /\ recency = << >>
    /\ solo = [s \in Sources |-> limiter]
    /\ FwdIdle
    /\ BqIdle
    /\ PureIdle

\* one call of admit(source) whose two clock readings are now and now_refill;
\* the Allow is counted at the reading the decision was taken with
AdmitCall(source, now, now_refill) ==
    /\ admit_calls < MaxAdmitCalls
    /\ LET r == admit(limiter, source, now, now_refill)
           a == admit(solo[source], source, now, now_refill)
       IN
       /\ limiter' = r.l
       /\ solo' = [solo EXCEPT ![source] = a.l]
       /\ lim_last' = [op |-> "admit", source |-> source, result |-> r.result,
                       solo_result |-> a.result]
       /\ allow_count' =
             IF r.result = "Allow"
             THEN [allow_count EXCEPT ![source][now_refill] = @ + 1]
             ELSE allow_count
    /\ insertions' = IF is_tracked(limiter, source) THEN insertions
                     ELSE insertions + 1
    /\ admit_calls' = admit_calls + 1
    /\ recency' = <<source>> \o ListErase(recency, source)
    /\ clock_now' = now_refill
    /\ UNCHANGED <<fwd_vars, bq_vars, pure_vars>>

\* admit under a steady clock: the second reading is the first or later
Admit ==
    \E source \in Sources, later \in {0, 1} :
        /\ clock_now + later \in Times
        /\ AdmitCall(source, clock_now, clock_now + later)

\* time passes between two calls
ClockAdvance ==
    /\ clock_now + 1 \in Times
    /\ clock_now' = clock_now + 1
    /\ UNCHANGED <<limiter, allow_count, insertions, lim_last, admit_calls,
                   recency, solo>>
    /\ UNCHANGED <<fwd_vars, bq_vars, pure_vars>>

LimiterNext == Admit \/ ClockAdvance

SpecLimiter == LimiterInit /\ [][LimiterNext]_vars

\* admit under a clock that may return any reading at each call
AdmitAnyClock ==
    /\ admit_calls < MaxAnyClockCalls
    /\ \E source \in Sources, now_refill \in Times :
          AdmitCall(source, clock_now, now_refill)

\* the clock is set forward or back between two calls
ClockJump ==
    /\ \E t \in Times \ {clock_now} : clock_now' = t
    /\ UNCHANGED <<limiter, allow_count, insertions, lim_last, admit_calls,
                   recency, solo>>
    /\ UNCHANGED <<fwd_vars, bq_vars, pure_vars>>

LimiterAnyClockNext == AdmitAnyClock \/ ClockJump

SpecLimiterAnyClock == LimiterInit /\ [][LimiterAnyClockNext]_vars

(***************************************************************************)
(* Claims about the SourceLimiter                                          *)
(***************************************************************************)
RECURSIVE AllowsIn(_, _, _)
\* number of Allow results of source s at clock readings t1 .. t2
AllowsIn(s, t1, t2) ==
    IF t1 > t2 THEN 0 ELSE allow_count[s][t1] + AllowsIn(s, t1 + 1, t2)

\* ceil(n / d) for n >= 0, d > 0
CeilDiv(n, d) == (n + d - 1) \div d

\* C3 (SpecLimiter): under a steady clock, for every source and every window
\* of T seconds the number of Allow results of that source in the window is
\* at most burst_tokens + ceil(tokens_per_sec * T), eviction and
\* re-admission inside the window included.  (Stated for max_sources >= 1;
\* the cap of zero is the subject of C4.)
C3_RateBound ==
    limiter.config_.max_sources >= 1 =>
    \A s \in Sources : \A t1 \in Times : \A t2 \in t1 .. MaxTime :
        AllowsIn(s, t1, t2) <=
            limiter.config_.burst_tokens
              + CeilDiv(limiter.config_.tokens_per_sec * (t2 - t1),
                        TicksPerSec)

\* C4 (SpecLimiter): tracked_count() never exceeds max_sources and
\* eviction_count is the number of new-source insertions minus
\* tracked_count(), for every SourceLimiterConfig.
C4_BoundedState ==
    /\ tracked_count(limiter) <= limiter.config_.max_sources
    /\ eviction_count(limiter) = insertions - tracked_count(limiter)

\* C5 (SpecLimiterAnyClock): whatever the clock returns, every tracked
\* bucket's tokens stay within [0, burst_tokens]; a reading earlier than
\* last_update adds zero tokens.  (Stated for max_sources >= 1; the cap of
\* zero is the subject of C4.)
C5_TokensWithinBucket ==
    limiter.config_.max_sources >= 1 =>
    \A s \in DOMAIN limiter.sources_ :
        /\ limiter.sources_[s].tokens >= 0
        /\ limiter.sources_[s].tokens
              <= limiter.config_.burst_tokens * OneToken

(***************************************************************************)
(* BoundedQueue: tail drop and the drop counter                            *)
(***************************************************************************)
\* C11: try_push on a queue whose size equals its capacity returns Dropped,
\* makes drop_count one more and leaves size, head, tail and every stored
\* item as they were, so the queued items are still popped unchanged and in
\* order; drop_count is the number of Dropped results since construction or
\* the last reset_drop_count; reset_drop_count changes only the counter.
C11_TailDrop ==
    [][ /\ ( bq_last'.op = "try_push" /\ BQ_size(bq) = BQ_capacity(bq) )
            => /\ bq_last'.result = "Dropped"
               /\ BQ_drop_count(bq') = BQ_drop_count(bq) + 1
               /\ bq'.size_ = bq.size_
               /\ bq'.head_ = bq.head_
               /\ bq'.tail_ = bq.tail_
               /\ bq'.buffer_ = bq.buffer_
               /\ BQ_contents(bq') = BQ_contents(bq)
        /\ bq_last'.op = "reset_drop_count"
            => /\ BQ_drop_count(bq') = 0
               /\ [bq' EXCEPT !.drop_count_ = bq.drop_count_] = bq
        /\ BQ_drop_count(bq') = bq_dropped' ]_vars

C11_Witness ==
    /\ bq_last.op = "try_push"
    /\ bq_last.result = "Dropped"
    /\ BQ_capacity(bq) >= 2
    /\ BQ_drop_count(bq) = 2
    /\ bq_pushes > BQ_capacity(bq) + 2

(***************************************************************************)
(* SourceLimiter: LRU policy                                               *)
(***************************************************************************)
IsAdmitStep == admit_calls' = admit_calls + 1

\* the tracked source whose latest admit call is the oldest
OldestAdmitted ==
    LET tracked == SelectSeq(recency, LAMBDA k : is_tracked(limiter, k))
    IN  tracked[Len(tracked)]

\* C12: admit of a tracked source makes it the most recently used and
\* removes no source.  admit of an untracked source when tracked_count()
\* equals max_sources removes exactly the tracked source whose latest admit
\* call is the oldest, makes eviction_count one more and inserts the new
\* source as most recently used.  In every other case no source is removed
\* and eviction_count stays.
C12_LruPolicy ==
    [][ IsAdmitStep =>
        LET s == lim_last'.source
            before == DOMAIN limiter.sources_
            after == DOMAIN limiter'.sources_
        IN  /\ limiter'.lru_list_ # << >>
            /\ limiter'.lru_list_[1] = s
            /\ IF is_tracked(limiter, s)
               THEN /\ after = before
                    /\ eviction_count(limiter') = eviction_count(limiter)
               ELSE IF tracked_count(limiter) = limiter.config_.max_sources
               THEN /\ before # {}
                    /\ after = (before \ {OldestAdmitted}) \cup {s}
                    /\ eviction_count(limiter')
                          = eviction_count(limiter) + 1
               ELSE /\ after = before \cup {s}
                    /\ eviction_count(limiter') = eviction_count(limiter)
      ]_vars

(***************************************************************************)
(* AgentQuotaTracker: size of the in-flight map                            *)
(***************************************************************************)
\* C13: at every call boundary each entry of in_flight_ has count >= 1, so
\* tracked_agents() <= total_in_flight() = queue depth; a try_forward that
\* the quota rejects leaves the map as it was, and so does a release of an
\* agent that has no entry.
C13_MapBoundedByQueue ==
    [][ /\ \A a \in DOMAIN quota_tracker_'.in_flight_ :
              quota_tracker_'.in_flight_[a] >= 1
        /\ tracked_agents(quota_tracker_') <= total_in_flight(quota_tracker_')
        /\ total_in_flight(quota_tracker_') = queue_depth'
        /\ ( IsTryForwardStep
             /\ last_call'.result = "DroppedAgentQuotaExceeded" )
            => quota_tracker_'.in_flight_ = quota_tracker_.in_flight_
        /\ \A a \in Agents \ DOMAIN quota_tracker_'.in_flight_ :
              release(quota_tracker_', a) = quota_tracker_' ]_vars

(***************************************************************************)
(* SourceLimiter: independence of the sources                              *)
(***************************************************************************)
\* C14: admit(S) leaves tokens and last_update of every other source that
\* stays tracked as they were; it removes another source only when S is new
\* and the map is full, and then only the one at the back of the LRU list.
\* Hence while the map has room for every source seen, each admit returns
\* what a limiter given that source's calls alone returns.
C14_SourceIndependence ==
    [][ IsAdmitStep =>
        LET s == lim_last'.source
            before == DOMAIN limiter.sources_
            after == DOMAIN limiter'.sources_
            removed == before \ after
        IN  /\ \A o \in (before \cap after) \ {s} :
                  limiter'.sources_[o] = limiter.sources_[o]
            /\ removed # {} =>
                  /\ ~is_tracked(limiter, s)
                  /\ tracked_count(limiter) >= limiter.config_.max_sources
                  /\ removed = {limiter.lru_list_[Len(limiter.lru_list_)]}
            /\ Len(recency') <= limiter.config_.max_sources
                  => lim_last'.result = lim_last'.solo_result ]_vars

C14_Witness ==
    /\ lim_last.op = "admit"
    /\ lim_last.result = "Allow"
    /\ Len(recency) = 2
    /\ Len(recency) <= limiter.config_.max_sources
    /\ \E o \in DOMAIN limiter.sources_ \ {lim_last.source} :
          /\ limiter.sources_[o].tokens < OneToken
          /\ limiter.config_.burst_tokens >= 1

(***************************************************************************)
(* parse_envelope called on arbitrary payloads                             *)
(***************************************************************************)
\* sizes explored: the small ones, the ones around the cap and the ones
\* around the largest frame a 16-bit length can describe
PayloadSizes ==
    (0 .. MaxSmallSize)
    \cup (kMaxDatagramBytes - 1 .. kMaxDatagramBytes + 2)
    \cup (TwoPow16 .. TwoPow16 + 2)

\* header values explored: the ones that fit a size explored, or miss it
\* by one
HeaderValues ==
    {v \in 0 .. TwoPow16 - 1 :
        \E n \in PayloadSizes : v + 2 \in {n - 1, n, n + 1}}

\* the payloads handed to parse_envelope; the header bytes of a payload
\* shorter than two bytes are never read
Payloads ==
    {Payload(n, v \div 256, v % 256) : n \in PayloadSizes \ {0, 1},
                                       v \in HeaderValues}
    \cup {Payload(0, 0, 0), Payload(1, 0, 0)}

\* a datagram has arrived and parse_envelope has not been called on it yet
EnvelopeInit ==
    /\ env_payload \in Payloads
    /\ env_result = Dropped("none")
    /\ env_prev = [payload |-> Payload(0, 0, 0), result |-> Dropped("none")]
    /\ ValIdle
    /\ FwdIdle
    /\ BqIdle
    /\ LimIdle
    /\ MoreIdle

\* the call parse_envelope(payload)
ParseEnvelope ==
    /\ env_result.kind = "none"
    /\ env_result' = parse_envelope(env_payload)
    /\ UNCHANGED <<env_payload, env_prev>>
    /\ UNCHANGED more_vars
    /\ UNCHANGED <<fwd_vars, bq_vars, lim_vars, met_vars, log_vars>>

\* the next datagram arrives
NextPayload ==
    /\ env_result.kind # "none"
    /\ env_payload' \in Payloads
    /\ env_result' = Dropped("none")
    /\ env_prev' = [payload |-> env_payload, result |-> env_result]
    /\ UNCHANGED more_vars
    /\ UNCHANGED <<fwd_vars, bq_vars, lim_vars, met_vars, log_vars>>

EnvelopeNext == ParseEnvelope \/ NextPayload

SpecEnvelope == EnvelopeInit /\ [][EnvelopeNext]_vars

\* declared length of a payload: 256 * payload[0] + payload[1]
Declared(payload) == 256 * payload.b0 + payload.b1

\* C15: size < 2 gives PayloadTooSmall; otherwise 2 + declared > size gives
\* LengthMismatch, 2 + declared < size gives TrailingJunk and 2 + declared
\* = size gives the ParsedBody that views payload[2 .. 2 + declared);
\* identical payloads give identical results.
C15_EnvelopeFunction ==
    env_result.kind # "none" =>
    /\ env_result =
          IF env_payload.size < 2 THEN Dropped("PayloadTooSmall")
          ELSE IF 2 + Declared(env_payload) > env_payload.size
          THEN Dropped("LengthMismatch")
          ELSE IF 2 + Declared(env_payload) < env_payload.size
          THEN Dropped("TrailingJunk")
          ELSE ParsedBody(2, Declared(env_payload))
    /\ env_prev.payload = env_payload
          /\ env_prev.result.kind # "none"
          => env_prev.result = env_result

\* C16: the drop reason is one of PayloadTooSmall, LengthMismatch and
\* TrailingJunk, never one about the total size; a payload whose header
\* equals its body length is returned as ParsedBody for every body length
\* from 0 to 65535.
C16_FramingAlone ==
    env_result.kind # "none" =>
    /\ env_result.kind \in {"ParsedBody", "PayloadTooSmall",
                            "LengthMismatch", "TrailingJunk"}
    /\ ( /\ env_payload.size >= 2
         /\ env_payload.size - 2 \in 0 .. TwoPow16 - 1
         /\ Declared(env_payload) = env_payload.size - 2 )
       => env_result.kind = "ParsedBody"

(***************************************************************************)
(* The validators called on arbitrary timestamps, clocks and windows       *)
(***************************************************************************)
ParsedMetrics(agent_id, seq, ts, metrics) ==
    [kind |-> "ParsedMetrics", agent_id |-> agent_id, seq |-> seq,
     ts |-> ts, metrics |-> metrics, metric_count |-> Len(metrics)]

ParsedLog(ts, level, agent_id, msg, field_count) ==
    [kind |-> "ParsedLog", agent_id |-> agent_id, ts |-> ts,
     level |-> level, msg |-> msg, field_count |-> field_count]

Metric(name, value) == [name |-> name, value |-> value]

MetricValueRules(min_value, max_value, reject_nan, reject_infinity) ==
    [min_value |-> min_value, max_value |-> max_value,
     reject_nan |-> reject_nan, reject_infinity |-> reject_infinity]

TimestampWindows == [max_age_ms : Int64, max_future_ms : Int64]

\* a metrics message and a log line that pass every check but the
\* timestamp's, with every ts, current time, window and require_timestamp
TimestampInit ==
    /\ \E ts \in Uint64, now \in Uint64, window \in TimestampWindows,
          require_timestamp \in BOOLEAN :
          /\ met_input =
                [parsed |-> ParsedMetrics(<<97>>, 1, ts,
                                          <<Metric(<<99>>, Finite(0))>>),
                 config |-> [timestamp_window |-> window,
                             value_rules |->
                                MetricValueRules(-1, 1, TRUE, TRUE),
                             require_timestamp |-> require_timestamp],
                 current_time_ms |-> now]
          /\ log_input =
                [parsed |-> ParsedLog(ts, 2, <<97>>, <<109>>, 0),
                 config |-> [timestamp_window |-> window,
                             min_level |-> 0,
                             max_message_length |-> 1,
                             truncate_oversized_message |-> TRUE,
                             require_agent_id |-> FALSE],
                 current_time_ms |-> now]
    /\ met_result = MetricsDrop("none")
    /\ log_result = LogDrop("none")
    /\ log_again = LogDrop("none")
    /\ EnvIdle
    /\ FwdIdle
    /\ BqIdle
    /\ LimIdle
    /\ MoreIdle

\* the call validate_metrics(parsed, config, current_time_ms)
ValidateMetrics ==
    /\ met_input.parsed.kind # "none"
    /\ met_result.kind = "none"
    /\ met_result' = validate_metrics(met_input.parsed, met_input.config,
                                      met_input.current_time_ms)
    /\ UNCHANGED <<met_input, log_vars, env_vars>>
    /\ UNCHANGED more_vars
    /\ UNCHANGED <<fwd_vars, bq_vars, lim_vars>>

\* the call validate_log(parsed, config, current_time_ms)
ValidateLog ==
    /\ log_input.parsed.kind # "none"
    /\ log_result.kind = "none"
    /\ log_result' = validate_log(log_input.parsed, log_input.config,
                                  log_input.current_time_ms)
    /\ UNCHANGED <<log_input, log_again, met_vars, env_vars>>
    /\ UNCHANGED more_vars
    /\ UNCHANGED <<fwd_vars, bq_vars, lim_vars>>

TimestampNext == ValidateMetrics \/ ValidateLog

SpecTimestamp == TimestampInit /\ [][TimestampNext]_vars

Max(a, b) == IF a >= b THEN a ELSE b

\* the window of the claim, computed without wrapping
InWindow(ts, now, window) ==
    /\ Max(0, now - window.max_age_ms) <= ts
    /\ ts <= now + window.max_future_ms

BelowWindow(ts, now, window) == ts < Max(0, now - window.max_age_ms)

AboveWindow(ts, now, window) ==
    ~BelowWindow(ts, now, window) /\ ts > now + window.max_future_ms

\* C17: for every ts, current time and TimestampWindow, a nonzero ts passes
\* the timestamp check of validate_metrics and of validate_log iff
\* max(0, now - max_age_ms) <= ts <= now + max_future_ms, the sum taken
\* without wrapping; below the lower bound the result is TimestampTooOld,
\* above the upper bound TimestampInFuture.  For metrics, ts = 0 gives
\* TimestampMissing when require_timestamp and passes unchecked otherwise.
C17_TimestampWindow ==
    /\ met_result.kind # "none" =>
          LET ts == met_input.parsed.ts
              now == met_input.current_time_ms
              window == met_input.config.timestamp_window
          IN  IF ts = 0
              THEN met_result.kind =
                      IF met_input.config.require_timestamp
                      THEN "TimestampMissing" ELSE "ValidatedMetrics"
              ELSE /\ met_result.kind = "ValidatedMetrics"
                        <=> InWindow(ts, now, window)
                   /\ BelowWindow(ts, now, window)
                        => met_result.kind = "TimestampTooOld"
                   /\ AboveWindow(ts, now, window)
                        => met_result.kind = "TimestampInFuture"
    /\ ( log_result.kind # "none" /\ log_input.parsed.ts # 0 ) =>
          LET ts == log_input.parsed.ts
              now == log_input.current_time_ms
              window == log_input.config.timestamp_window
          IN  /\ log_result.kind = "ValidatedLog"
                   <=> InWindow(ts, now, window)
              /\ BelowWindow(ts, now, window)
                   => log_result.kind = "TimestampTooOld"
              /\ AboveWindow(ts, now, window)
                   => log_result.kind = "TimestampInFuture"

(***************************************************************************)
(* validate_metrics called on arbitrary parsed messages                    *)
(***************************************************************************)
\* all sequences over a set up to a length
SeqsUpTo(S, n) == UNION {[1 .. k -> S] : k \in 0 .. n}

\* a string of n copies of one character
Repeat(c, n) == [i \in 1 .. n |-> c]

\* characters explored: a letter, a digit and one outside the pattern
Chars == {97, 57, 33}

\* agent ids explored: the short ones, ones with '_' and '-', and ones at
\* and over AgentIdRules::kMaxLength with and without a bad character
AgentIds ==
    SeqsUpTo(Chars, MaxIdLen)
    \cup {<<65, 95, 45>>, <<95, 97>>}
    \cup {Repeat(97, kMaxLength), Repeat(97, kMaxLength + 1),
          Repeat(33, kMaxLength + 1),
          Repeat(97, kMaxLength - 1) \o <<33>>}

\* metrics explored: an empty name, and a named metric of every class of
\* value, below, within and above [min_value, max_value] = [-1, 1]
MetricChoices ==
    {Metric(<< >>, Finite(0))}
    \cup {Metric(<<99>>, v) :
            v \in {Nan, Inf, Finite(-2), Finite(0), Finite(2)}}

\* one current time and window, and a ts that is absent, too old, inside
\* and in the future
MetricsClock == TwoPowTs \div 2
MetricsWindow == [max_age_ms |-> 2, max_future_ms |-> 1]
MetricsTimestamps ==
    {0, MetricsClock - 3, MetricsClock - 1, MetricsClock + 2}

MetricsInit ==
    /\ \E agent_id \in AgentIds, ts \in MetricsTimestamps,
          metrics \in SeqsUpTo(MetricChoices, MaxMetrics),
          reject_nan \in BOOLEAN, reject_infinity \in BOOLEAN,
          require_timestamp \in BOOLEAN :
          met_input =
             [parsed |-> ParsedMetrics(agent_id, 7, ts, metrics),
              config |-> [timestamp_window |-> MetricsWindow,
                          value_rules |->
                             MetricValueRules(-1, 1, reject_nan,
                                              reject_infinity),
                          require_timestamp |-> require_timestamp],
              current_time_ms |-> MetricsClock]
    /\ met_result = MetricsDrop("none")
    /\ log_input = [parsed |-> LogDrop("none"), current_time_ms |-> 0]
    /\ log_result = LogDrop("none")
    /\ log_again = LogDrop("none")
    /\ EnvIdle
    /\ FwdIdle
    /\ BqIdle
    /\ LimIdle
    /\ MoreIdle

MetricsNext == ValidateMetrics

SpecMetrics == MetricsInit /\ [][MetricsNext]_vars

\* ^[A-Za-z][A-Za-z0-9_-]{0,63}$
MatchesAgentIdPattern(id) ==
    /\ Len(id) >= 1
    /\ Len(id) <= 64
    /\ IsLetter(id[1])
    /\ \A i \in 2 .. Len(id) :
          IsLetter(id[i]) \/ IsDigit(id[i]) \/ id[i] \in {95, 45}

Check(fails, reason) == [fails |-> fails, reason |-> reason]

\* the reason of the first failing check of a list, "" when none fails
FirstFailing(checks) ==
    IF \A k \in DOMAIN checks : ~checks[k].fails THEN ""
    ELSE checks[CHOOSE k \in DOMAIN checks :
                   /\ checks[k].fails
                   /\ \A j \in 1 .. k - 1 : ~checks[j].fails].reason

\* the timestamp checks of validate_metrics, in their order
MetricsTimestampChecks(parsed, config, now) ==
    LET outside == parsed.ts # 0
                   /\ ~validate_timestamp_window(parsed.ts, now,
                                                 config.timestamp_window)
        old == parsed.ts < min_allowed(now, config.timestamp_window)
    IN  << Check(config.require_timestamp /\ parsed.ts = 0,
                 "TimestampMissing"),
           Check(outside /\ old, "TimestampTooOld"),
           Check(outside /\ ~old, "TimestampInFuture") >>

\* the checks on one metric, in their order
MetricChecks(m, rules) ==
    LET finite == m.value.class = "finite" IN
    << Check(m.name = << >>, "MetricNameEmpty"),
       Check(rules.reject_nan /\ m.value.class = "nan", "MetricValueNaN"),
       Check(rules.reject_infinity /\ m.value.class \in {"inf", "-inf"},
             "MetricValueInfinity"),
       Check(finite /\ m.value.v < rules.min_value, "MetricValueTooLow"),
       Check(finite /\ m.value.v > rules.max_value, "MetricValueTooHigh") >>

RECURSIVE AllMetricChecks(_, _)
AllMetricChecks(metrics, rules) ==
    IF metrics = << >> THEN << >>
    ELSE MetricChecks(Head(metrics), rules)
            \o AllMetricChecks(Tail(metrics), rules)

\* C18: validate_metrics returns the first failing check in the order
\* agent_id empty, longer than 64, not matching the pattern; the timestamp
\* checks (as validate_metrics makes them; their window is the subject of
\* C17); then per metric in index order empty name, NaN when rejected,
\* infinity when rejected, finite below min_value, finite above max_value.
\* It succeeds iff none fails, and then carries the agent_id, seq, ts and
\* metric_count of the input.
C18_MetricsCheckOrder ==
    met_result.kind # "none" =>
    LET parsed == met_input.parsed
        config == met_input.config
        first ==
           FirstFailing(
              << Check(parsed.agent_id = << >>, "AgentIdEmpty"),
                 Check(Len(parsed.agent_id) > 64, "AgentIdTooLong"),
                 Check(~MatchesAgentIdPattern(parsed.agent_id),
                       "AgentIdInvalidFormat") >>
              \o MetricsTimestampChecks(parsed, config,
                                        met_input.current_time_ms)
              \o AllMetricChecks(parsed.metrics, config.value_rules))
    IN  IF first # "" THEN met_result.kind = first
        ELSE /\ met_result.kind = "ValidatedMetrics"
             /\ met_result.agent_id = parsed.agent_id
             /\ met_result.seq = parsed.seq
             /\ met_result.ts = parsed.ts
             /\ met_result.metric_count = parsed.metric_count

C18_Witness ==
    /\ met_result.kind = "MetricValueTooHigh"
    /\ met_input.parsed.metric_count = 2
    /\ met_input.parsed.metrics[1].value = Inf
    /\ ~met_input.config.value_rules.reject_infinity
    /\ met_input.parsed.ts = 0
    /\ Len(met_input.parsed.agent_id) = kMaxLength

(***************************************************************************)
(* validate_log called on arbitrary parsed log lines                       *)
(***************************************************************************)
\* LogLevel: Trace = 0 .. Fatal = 5
LogLevels == 0 .. 5

\* agent ids explored: absent, well formed, badly formed, and at and over
\* AgentIdRules::kMaxLength
LogAgentIds ==
    {<< >>, <<97>>, <<33>>, <<97, 33>>, Repeat(97, kMaxLength),
     Repeat(97, kMaxLength + 1), Repeat(33, kMaxLength + 1)}

\* the message "mnop..." cut at every length up to MaxMsgLen
LogMessages == {[i \in 1 .. n |-> 108 + i] : n \in 0 .. MaxMsgLen}

LogInit ==
    /\ \E agent_id \in LogAgentIds, ts \in MetricsTimestamps,
          level \in LogLevels, min_level \in LogLevels,
          msg \in LogMessages, max_message_length \in 0 .. MaxMsgLen,
          truncate_oversized_message \in BOOLEAN,
          require_agent_id \in BOOLEAN :
          log_input =
             [parsed |-> ParsedLog(ts, level, agent_id, msg, 0),
              config |-> [timestamp_window |-> MetricsWindow,
                          min_level |-> min_level,
                          max_message_length |-> max_message_length,
                          truncate_oversized_message |->
                             truncate_oversized_message,
                          require_agent_id |-> require_agent_id],
              current_time_ms |-> MetricsClock]
    /\ log_result = LogDrop("none")
    /\ log_again = LogDrop("none")
    /\ met_input = [parsed |-> MetricsDrop("none"), current_time_ms |-> 0]
    /\ met_result = MetricsDrop("none")
    /\ EnvIdle
    /\ FwdIdle
    /\ BqIdle
    /\ LimIdle
    /\ MoreIdle

\* validate_log called on the validated log: same line, the msg returned
ValidateLogAgain ==
    /\ log_result.kind = "ValidatedLog"
    /\ log_again.kind = "none"
    /\ log_again' = validate_log([log_input.parsed EXCEPT
                                     !.msg = log_result.msg],
                                 log_input.config,
                                 log_input.current_time_ms)
    /\ UNCHANGED <<log_input, log_result, met_vars, env_vars>>
    /\ UNCHANGED more_vars
    /\ UNCHANGED <<fwd_vars, bq_vars, lim_vars>>

LogNext == ValidateLog \/ ValidateLogAgain

SpecLog == LogInit /\ [][LogNext]_vars

\* the timestamp checks of validate_log, in their order
LogTimestampChecks(parsed, config, now) ==
    LET outside == ~validate_timestamp_window(parsed.ts, now,
                                              config.timestamp_window)
        old == parsed.ts < min_allowed(now, config.timestamp_window)
    IN  << Check(outside /\ old, "TimestampTooOld"),
           Check(outside /\ ~old, "TimestampInFuture") >>

\* C19: validate_log returns the first failing check in the order agent id
\* (present: AgentIdTooLong, then AgentIdInvalidFormat; absent and
\* required: AgentIdEmpty), timestamp window (as validate_log checks it;
\* the window is the subject of C17), level (below min_level gives
\* LevelBelowMinimum, equal is accepted), message (empty gives
\* MessageEmpty, longer than max_message_length gives MessageTooLong when
\* truncation is off); it succeeds iff none fails.
C19_LogCheckOrder ==
    log_result.kind # "none" =>
    LET parsed == log_input.parsed
        config == log_input.config
        present == parsed.agent_id # << >>
        first ==
           FirstFailing(
              << Check(present /\ Len(parsed.agent_id) > 64,
                       "AgentIdTooLong"),
                 Check(present /\ ~MatchesAgentIdPattern(parsed.agent_id),
                       "AgentIdInvalidFormat"),
                 Check(~present /\ config.require_agent_id,
                       "AgentIdEmpty") >>
              \o LogTimestampChecks(parsed, config,
                                    log_input.current_time_ms)
              \o << Check(parsed.level < config.min_level,
                          "LevelBelowMinimum"),
                    Check(parsed.msg = << >>, "MessageEmpty"),
                    Check(Len(parsed.msg) > config.max_message_length
                             /\ ~config.truncate_oversized_message,
                          "MessageTooLong") >>)
    IN  IF first # "" THEN log_result.kind = first
        ELSE log_result.kind = "ValidatedLog"

C19_Witness ==
    /\ log_result.kind = "MessageTooLong"
    /\ log_input.parsed.level = log_input.config.min_level
    /\ log_input.parsed.level >= 1
    /\ log_input.parsed.agent_id = << >>
    /\ log_input.parsed.ts = MetricsClock - 1

\* the message part of C20: under truncation a message longer than
\* max_message_length comes back as its prefix of exactly that length, a
\* message within the length comes back unchanged
TruncatesToPrefix ==
    ( log_result.kind = "ValidatedLog"
      /\ log_input.config.truncate_oversized_message ) =>
    LET msg == log_input.parsed.msg
        max == log_input.config.max_message_length
    IN  IF Len(msg) > max
        THEN /\ Len(log_result.msg) = max
             /\ \A i \in 1 .. max : log_result.msg[i] = msg[i]
        ELSE log_result.msg = msg

\* validating the validated log again succeeds with the same message
RevalidatesUnchanged ==
    /\ log_again.kind = "ValidatedLog"
    /\ log_again.msg = log_result.msg

\* C20 as claimed: truncation to a prefix, and validating the truncated
\* message again returns it unchanged, for every max_message_length.
C20_Original ==
    /\ TruncatesToPrefix
    /\ ( log_again.kind # "none"
         /\ log_input.config.truncate_oversized_message )
       => RevalidatesUnchanged

\* C20 amended: truncation to a prefix for every max_message_length, and
\* validating the truncated message again returns it unchanged when
\* max_message_length >= 1.
C20_TruncationToPrefix ==
    /\ TruncatesToPrefix
    /\ ( log_again.kind # "none"
         /\ log_input.config.truncate_oversized_message
         /\ log_input.config.max_message_length >= 1 )
       => RevalidatesUnchanged

C20_Witness ==
    /\ log_input.config.truncate_oversized_message
    /\ log_input.config.max_message_length = 2
    /\ Len(log_input.parsed.msg) = 3
    /\ log_result.kind = "ValidatedLog"
    /\ Len(log_result.msg) = 2
    /\ log_again.kind = "ValidatedLog"

(***************************************************************************)
(* TB-3 log parsing: parse_log  (src/parse_log.cpp)                        *)
(*                                                                         *)
(* A line is the sequence of its bytes; pos is the 0-based offset pos_ of  *)
(* LogfmtParser, so input_[pos_] is input[pos + 1].  A string_view into    *)
(* the line is the sequence of the bytes it covers.                        *)
(***************************************************************************)
kMaxLineBytes == 2048

kMaxFields == 16

kMaxKeyLen == 32

kMaxValueLen == 1024

\* input_.substr(start, count)
InputSubstr(input, start, count) == SubSeq(input, start + 1, start + count)

\* ' ' or '\t'
IsBlank(c) == c = 32 \/ c = 9

is_key_start(c) == (c >= 97 /\ c <= 122) \/ c = 95

is_key_char(c) == (c >= 97 /\ c <= 122) \/ (c >= 48 /\ c <= 57) \/ c = 95

\* the loop that strips trailing '\n', '\r', ' ' and '\t'
RECURSIVE strip_trailing(_)
strip_trailing(input) ==
    IF input # <<>> /\ input[Len(input)] \in {10, 13, 32, 9}
    THEN strip_trailing(SubSeq(input, 1, Len(input) - 1))
    ELSE input

RECURSIVE skip_spaces(_, _)
skip_spaces(input, pos) ==
    IF pos < Len(input) /\ IsBlank(input[pos + 1])
    THEN skip_spaces(input, pos + 1)
    ELSE pos

\* what parse_key and parse_value return, with pos_ after the call
ParseOk(value, pos) ==
    [ok |-> TRUE, error |-> "none", value |-> value, pos |-> pos]

ParseError(reason, pos) ==
    [ok |-> FALSE, error |-> reason, value |-> <<>>, pos |-> pos]

\* the loop of parse_key over the remaining key characters
RECURSIVE key_end(_, _)
key_end(input, pos) ==
    IF pos < Len(input) /\ is_key_char(input[pos + 1])
    THEN key_end(input, pos + 1)
    ELSE pos

parse_key(input, pos) ==
    IF pos >= Len(input) THEN ParseError("MissingEquals", pos)
    ELSE IF ~is_key_start(input[pos + 1])
    THEN ParseError("InvalidKeyChar", pos)
    ELSE LET end == key_end(input, pos + 1)
         IN  ParseOk(InputSubstr(input, pos, end - pos), end)

\* the loop of parse_bare_value
RECURSIVE bare_end(_, _)
bare_end(input, pos) ==
    IF pos < Len(input) /\ ~IsBlank(input[pos + 1])
       /\ input[pos + 1] # 34 /\ input[pos + 1] # 61
    THEN bare_end(input, pos + 1)
    ELSE pos

parse_bare_value(input, pos) ==
    LET end == bare_end(input, pos)
    IN  ParseOk(InputSubstr(input, pos, end - pos), end)

\* the loop of parse_quoted_value: the offset of the closing quote, or the
\* size of the input when there is none
RECURSIVE quote_end(_, _)
quote_end(input, pos) ==
    IF pos < Len(input) /\ input[pos + 1] # 34
    THEN quote_end(input, pos + 1)
    ELSE pos

parse_quoted_value(input, pos) ==
    IF pos >= Len(input) \/ input[pos + 1] # 34
    THEN ParseError("UnterminatedQuote", pos)
    ELSE LET start == pos + 1
             end == quote_end(input, start)
         IN  IF end < Len(input)
             THEN ParseOk(InputSubstr(input, start, end - start), end + 1)
             ELSE ParseError("UnterminatedQuote", end)

parse_value(input, pos) ==
    IF pos >= Len(input) THEN ParseOk(<<>>, pos)
    ELSE IF input[pos + 1] = 34 THEN parse_quoted_value(input, pos)
    ELSE parse_bare_value(input, pos)

\* the value of a run of decimal digits, stopping once it no longer fits
RECURSIVE DecimalValue(_, _)
DecimalValue(digits, acc) ==
    IF digits = <<>> \/ acc >= TwoPowTs THEN acc
    ELSE DecimalValue(Tail(digits), 10 * acc + (Head(digits) - 48))

\* std::from_chars into a std::uint64_t, with the test the caller makes on
\* it: ec == errc{} and ptr at the end of the value
from_chars(value) ==
    IF value = <<>> \/ \E i \in 1 .. Len(value) : ~IsDigit(value[i])
    THEN [ok |-> FALSE, ts_val |-> 0]
    ELSE IF DecimalValue(value, 0) >= TwoPowTs
    THEN [ok |-> FALSE, ts_val |-> 0]
    ELSE [ok |-> TRUE, ts_val |-> DecimalValue(value, 0)]

\* the keys and level names the parser compares with
KeyTs == <<116, 115>>

KeyLevel == <<108, 101, 118, 101, 108>>

KeyMsg == <<109, 115, 103>>

KeyAgent == <<97, 103, 101, 110, 116>>

LevelNames ==
    <<  <<116, 114, 97, 99, 101>>,      \* trace
        <<100, 101, 98, 117, 103>>,     \* debug
        <<105, 110, 102, 111>>,         \* info
        <<119, 97, 114, 110>>,          \* warn
        <<101, 114, 114, 111, 114>>,    \* error
        <<102, 97, 116, 97, 108>> >>    \* fatal

\* parse_log_level: out is LogLevel as its number, Trace = 0 .. Fatal = 5
parse_log_level(s) ==
    IF \E i \in 1 .. Len(LevelNames) : LevelNames[i] = s
    THEN [ok |-> TRUE,
          out |-> (CHOOSE i \in 1 .. Len(LevelNames) : LevelNames[i] = s) - 1]
    ELSE [ok |-> FALSE, out |-> 0]

\* the locals of LogfmtParser::parse before the field loop
ParseLocals ==
    [result |-> [ts |-> 0, level |-> 2, agent_id |-> <<>>, msg |-> <<>>,
                 fields |-> <<>>, field_count |-> 0],
     has_ts |-> FALSE, has_level |-> FALSE, has_msg |-> FALSE]

\* what parse returns: a ParsedLog or a LogDropReason; on a drop the record
\* also shows the locals at the return, which the caller does not get
LogReturn(kind, st) ==
    [kind |-> kind, ts |-> st.result.ts, level |-> st.result.level,
     agent_id |-> st.result.agent_id, msg |-> st.result.msg,
     fields |-> st.result.fields, field_count |-> st.result.field_count]

check_required_level_first(st) ==
    IF ~st.has_level THEN LogReturn("MissingLevel", st)
    ELSE IF ~st.has_ts THEN LogReturn("MissingTimestamp", st)
    ELSE IF ~st.has_msg THEN LogReturn("MissingMessage", st)
    ELSE LogReturn("ParsedLog", st)

\* the required-field checks after the loop
check_required(st) ==
    IF ~st.has_ts THEN LogReturn("MissingTimestamp", st)
    ELSE IF ~st.has_level THEN LogReturn("MissingLevel", st)
    ELSE IF ~st.has_msg THEN LogReturn("MissingMessage", st)
    ELSE LogReturn("ParsedLog", st)

\* the field loop, from pos_ = pos with the locals st
RECURSIVE parse_fields(_, _, _)
parse_fields(input, pos, st) ==
    IF ~(pos < Len(input)) THEN check_required(st)
    ELSE
    LET at == skip_spaces(input, pos)
        key == parse_key(input, at)
        value == parse_value(input, key.pos + 1)
        stored == [st EXCEPT
            !.result.fields = Append(@, [key |-> key.value,
                                         value |-> value.value]),
            !.result.field_count = @ + 1]
        ts == from_chars(value.value)
        level == parse_log_level(value.value)
    IN  IF at >= Len(input) THEN check_required(st)
        ELSE IF st.result.field_count >= kMaxFields
        THEN LogReturn("TooManyFields", st)
        ELSE IF ~key.ok THEN LogReturn(key.error, st)
        ELSE IF Len(key.value) > kMaxKeyLen THEN LogReturn("KeyTooLong", st)
        ELSE IF key.pos >= Len(input) \/ input[key.pos + 1] # 61
        THEN LogReturn("MissingEquals", st)
        ELSE IF ~value.ok THEN LogReturn(value.error, st)
        ELSE IF Len(value.value) > kMaxValueLen
        THEN LogReturn("ValueTooLong", st)
        ELSE IF key.value = KeyTs
        THEN IF ~ts.ok THEN LogReturn("InvalidTimestamp", stored)
             ELSE parse_fields(input, value.pos,
                     [stored EXCEPT !.result.ts = ts.ts_val,
                                    !.has_ts = TRUE])
        ELSE IF key.value = KeyLevel
        THEN IF ~level.ok THEN LogReturn("InvalidLevel", stored)
             ELSE parse_fields(input, value.pos,
                     [stored EXCEPT !.result.level = level.out,
                                    !.has_level = TRUE])
        ELSE IF key.value = KeyMsg
        THEN parse_fields(input, value.pos,
                 [stored EXCEPT !.result.msg = value.value,
                                !.has_msg = TRUE])
        ELSE IF key.value = KeyAgent
        THEN parse_fields(input, value.pos,
                 [stored EXCEPT !.result.agent_id = value.value])
        ELSE parse_fields(input, value.pos, stored)

\* LogfmtParser::parse
LogfmtParser_parse(input) ==
    IF Len(input) > kMaxLineBytes THEN LogReturn("InputTooLarge", ParseLocals)
    ELSE IF input = <<>> THEN LogReturn("EmptyInput", ParseLocals)
    ELSE IF strip_trailing(input) = <<>>
    THEN LogReturn("EmptyInput", ParseLocals)
    ELSE parse_fields(strip_trailing(input), 0, ParseLocals)

parse_log(input) == LogfmtParser_parse(input)

(***************************************************************************)
(* parse_log as the system: Init draws the input line, ParseLog applies    *)
(* the function.  The lines are built from fields that each exercise one   *)
(* rule of the parser, joined with or without a space, and a few lines     *)
(* written out in full.                                                    *)
(***************************************************************************)
MaxLogFields == 3

LogChunks ==
    {   <<116, 115, 61, 49>>,                               \* ts=1
        <<116, 115, 61, 49, 120>>,                          \* ts=1x
        <<108, 101, 118, 101, 108, 61, 105, 110, 102, 111>>, \* level=info
        <<108, 101, 118, 101, 108, 61, 120>>,               \* level=x
        <<109, 115, 103, 61, 120>>,                         \* msg=x
        <<109, 115, 103, 61, 34, 34>>,                      \* msg=""
        <<109, 115, 103, 61, 34, 97, 32, 98, 34>>,          \* msg="a b"
        <<109, 115, 103, 61>>,                              \* msg=
        <<107, 61, 118>>,                                   \* k=v
        <<109, 115, 103, 61, 34, 97>> }                     \* msg="a

LogSeparators == {<<32>>, <<>>}

\* lines of n chunks with one blank between them
RECURSIVE BlankLinesOf(_)
BlankLinesOf(n) ==
    IF n <= 1 THEN LogChunks
    ELSE {l \o <<32>> \o c : l \in BlankLinesOf(n - 1), c \in LogChunks}

\* lines of n chunks, the last one after a blank or right after the one
\* before it
LogLinesOf(n) ==
    IF n <= 1 THEN LogChunks
    ELSE {l \o s \o c : l \in BlankLinesOf(n - 1), s \in LogSeparators,
                        c \in LogChunks}

RECURSIVE RepeatChunk(_, _)
RepeatChunk(chunk, n) ==
    IF n = 0 THEN <<>> ELSE chunk \o RepeatChunk(chunk, n - 1)

\* ts=1 level=info msg=x
ThreeFieldLine ==
    <<116, 115, 61, 49, 32, 108, 101, 118, 101, 108, 61, 105, 110, 102, 111,
      32, 109, 115, 103, 61, 120>>

\* ThreeFieldLine followed by n - 3 times " k=v"
LineOfFields(n) == ThreeFieldLine \o RepeatChunk(<<32, 107, 61, 118>>, n - 3)

HandLines ==
    {   <<>>,
        <<32>>,
        <<107>>,                                            \* k
        <<75, 61, 118>>,                                    \* K=v
        <<61, 118>>,                                        \* =v
        <<107, 57, 95, 61, 118>>,                           \* k9_=v
        <<95, 107, 61, 118, 61>>,                           \* _k=v=
        ThreeFieldLine \o <<10>>,
        \* " ts=1\tlevel=warn  msg=x agent=a \r\n"
        <<32, 116, 115, 61, 49, 9, 108, 101, 118, 101, 108, 61, 119, 97,
          114, 110, 32, 32, 109, 115, 103, 61, 120, 32, 97, 103, 101, 110,
          116, 61, 97, 32, 13, 10>>,
        \* ts=9 level=fatal msg=x
        <<116, 115, 61, 57, 32, 108, 101, 118, 101, 108, 61, 102, 97, 116,
          97, 108, 32, 109, 115, 103, 61, 120>>,
        \* ts=12 level=debug msg=x
        <<116, 115, 61, 49, 50, 32, 108, 101, 118, 101, 108, 61, 100, 101,
          98, 117, 103, 32, 109, 115, 103, 61, 120>>,
        Repeat(107, kMaxLineBytes + 1),
        Repeat(107, kMaxKeyLen) \o <<61, 118>>,
        Repeat(107, kMaxKeyLen + 1) \o <<61, 118>>,
        LineOfFields(kMaxFields - 1),
        LineOfFields(kMaxFields),
        LineOfFields(kMaxFields + 1),
        \* msg="a b" and then kMaxFields - 1 fields, none after a blank
        <<109, 115, 103, 61, 34, 97, 32, 98, 34>>
            \o LineOfFields(kMaxFields - 1),
        <<109, 115, 103, 61, 34, 97, 32, 98, 34>>
            \o LineOfFields(kMaxFields) }

LogLines(max_fields) ==
    UNION {LogLinesOf(n) : n \in 1 .. max_fields} \cup HandLines

ParseLogInit ==
    /\ plog_input \in LogLines(MaxLogFields)
    /\ plog_result = [kind |-> "none"]
    /\ PmIdle
    /\ HostIdle
    /\ EnvIdle
    /\ ValIdle
    /\ FwdIdle
    /\ BqIdle
    /\ LimIdle

ParseLog ==
    /\ plog_result.kind = "none"
    /\ plog_result' = parse_log(plog_input)
    /\ UNCHANGED <<plog_input, pm_vars, host_vars>>
    /\ UNCHANGED <<fwd_vars, bq_vars, lim_vars, env_vars, met_vars, log_vars>>

ParseLogNext == ParseLog

SpecParseLog == ParseLogInit /\ [][ParseLogNext]_vars

\* the fields of a result with a given key, by their index
FieldsWithKey(r, key) ==
    {i \in 1 .. Len(r.fields) : r.fields[i].key = key}

\* a complete unsigned decimal integer
IsDecimal(v) == v # <<>> /\ \A i \in 1 .. Len(v) : IsDigit(v[i])

IsLevelName(v) == \E i \in 1 .. Len(LevelNames) : LevelNames[i] = v

\* the outcomes of a line all of whose fields parsed
AfterAllFields ==
    {"ParsedLog", "MissingTimestamp", "MissingLevel", "MissingMessage"}

\* the outcome the required-key rule gives for the fields of r
RequiredKeyOutcome(r) ==
    IF FieldsWithKey(r, KeyTs) = {} THEN "MissingTimestamp"
    ELSE IF FieldsWithKey(r, KeyLevel) = {} THEN "MissingLevel"
    ELSE IF FieldsWithKey(r, KeyMsg) = {} THEN "MissingMessage"
    ELSE "ParsedLog"

\* a returned ParsedLog had a ts field that is a complete decimal integer
\* and a level field that names a level
TsAndLevelPresent(r) ==
    /\ \E i \in FieldsWithKey(r, KeyTs) : IsDecimal(r.fields[i].value)
    /\ \E i \in FieldsWithKey(r, KeyLevel) : IsLevelName(r.fields[i].value)

\* C21 as stated: every returned ParsedLog had a decimal ts field, a level
\* field naming a level and a msg field whose value is non-empty, and a
\* line whose fields all parse is dropped with MissingTimestamp,
\* MissingLevel or MissingMessage, in that order, for the first required
\* key it lacks.
C21_Original ==
    plog_result.kind # "none" =>
        /\ plog_result.kind = "ParsedLog" =>
            /\ TsAndLevelPresent(plog_result)
            /\ \E i \in FieldsWithKey(plog_result, KeyMsg) :
                   plog_result.fields[i].value # <<>>
        /\ plog_result.kind \in AfterAllFields =>
               plog_result.kind = RequiredKeyOutcome(plog_result)

\* C21, amended: every returned ParsedLog had a decimal ts field, a level
\* field naming a level and a msg field, whose value may be empty; its msg
\* is the value of the last msg field; and a line whose fields all parse
\* is dropped with MissingTimestamp, MissingLevel or MissingMessage, in
\* that order, for the first required key it lacks.
C21_RequiredKeys ==
    plog_result.kind # "none" =>
        /\ plog_result.kind = "ParsedLog" =>
            /\ TsAndLevelPresent(plog_result)
            /\ FieldsWithKey(plog_result, KeyMsg) # {}
            /\ \E i \in FieldsWithKey(plog_result, KeyMsg) :
                /\ \A j \in FieldsWithKey(plog_result, KeyMsg) : j <= i
                /\ plog_result.msg = plog_result.fields[i].value
        /\ plog_result.kind \in AfterAllFields =>
               plog_result.kind = RequiredKeyOutcome(plog_result)

\* a ParsedLog whose only msg field is empty was returned
C21_Witness ==
    /\ plog_result.kind = "ParsedLog"
    /\ plog_result.msg = <<>>
    /\ \A i \in FieldsWithKey(plog_result, KeyMsg) :
           plog_result.fields[i].value = <<>>

\* the least index i >= from with line[i] in S, or Len(line) + 1
FirstAt(line, from, S) ==
    IF \E i \in from .. Len(line) : line[i] \in S
    THEN CHOOSE i \in from .. Len(line) :
             /\ line[i] \in S
             /\ \A j \in from .. (i - 1) : line[j] \notin S
    ELSE Len(line) + 1

\* the least index i >= from with line[i] not a blank, or Len(line) + 1
FirstNonBlank(line, from) ==
    IF \E i \in from .. Len(line) : ~IsBlank(line[i])
    THEN CHOOSE i \in from .. Len(line) :
             /\ ~IsBlank(line[i])
             /\ \A j \in from .. (i - 1) : IsBlank(line[j])
    ELSE Len(line) + 1

\* key = [a-z_][a-z0-9_]*
MatchesKeyPattern(key) ==
    /\ key # <<>>
    /\ key[1] = 95 \/ (key[1] >= 97 /\ key[1] <= 122)
    /\ \A i \in 2 .. Len(key) :
           key[i] = 95 \/ (key[i] >= 97 /\ key[i] <= 122) \/ IsDigit(key[i])

\* The documented grammar, line = field (blank+ field)*, field = key "="
\* value, value = quoted | bare, read from index from of the line: the
\* number of fields when the rest of the line is in the grammar, 0 when it
\* is not.  A quoted value ends at the next quote; a bare value runs to the
\* next blank and may be empty; after a value comes the end of the line or
\* a blank.
RECURSIVE GrammarFields(_, _)
GrammarFields(line, from) ==
    LET eq == FirstAt(line, from, {61})
        key == SubSeq(line, from, eq - 1)
        quoted == eq < Len(line) /\ line[eq + 1] = 34
        close == FirstAt(line, eq + 2, {34})
        after == IF quoted THEN close + 1 ELSE FirstAt(line, eq + 1, {32, 9})
        next == FirstNonBlank(line, after)
    IN  IF eq > Len(line) \/ ~MatchesKeyPattern(key) THEN 0
        ELSE IF quoted /\ close > Len(line) THEN 0
        ELSE IF after > Len(line) THEN 1
        ELSE IF ~IsBlank(line[after]) THEN 0
        ELSE IF next > Len(line) THEN 1
        ELSE IF GrammarFields(line, next) = 0 THEN 0
        ELSE 1 + GrammarFields(line, next)

\* the number of fields of an input in the grammar after its trailing
\* whitespace is stripped, 0 for an input that is not in the grammar
LogfmtFieldCount(input) ==
    LET line == strip_trailing(input)
    IN  GrammarFields(line, FirstNonBlank(line, 1))

\* C22: parse_log returns a ParsedLog only for an input that, after
\* stripping trailing whitespace, is a sequence of key=value fields with at
\* least one space or tab between every two consecutive fields, every key
\* matching [a-z_][a-z0-9_]*, and at most kMaxFields fields, all of them
\* counted in field_count; an input of more than kMaxFields such fields is
\* never accepted.
C22_LogfmtGrammarOnly ==
    plog_result.kind # "none" =>
        /\ plog_result.kind = "ParsedLog" =>
            /\ LogfmtFieldCount(plog_input) \in 1 .. kMaxFields
            /\ plog_result.field_count = LogfmtFieldCount(plog_input)
        /\ LogfmtFieldCount(plog_input) > kMaxFields =>
               plog_result.kind \in
                   {"TooManyFields", "InvalidTimestamp", "InvalidLevel"}

(***************************************************************************)
(* TB-3 metrics parsing: parse_metrics  (src/parse_metrics.cpp)            *)
(*                                                                         *)
(* The input is the sequence of its JSON tokens: the punctuation marks,    *)
(* strings (the bytes between the quotes) and numbers.  pos is the number  *)
(* of tokens consumed, the counterpart of pos_; skip_whitespace has        *)
(* nothing to skip between tokens.  A ParsedMetrics and a Metric show the  *)
(* first metric_count and tag_count slots of their arrays, the ones a      *)
(* reader of the result looks at; metric_hi is the highest index of a      *)
(* metrics slot handed to parse_metric and tag_hi the highest index of a   *)
(* tags slot written by parse_tags (-1 for none).                          *)
(***************************************************************************)
kMaxAgentIdLen == 64

kMaxMetrics == 50

kMaxMetricNameLen == 128

kMaxUnitLen == 16

kMaxTags == 8

kMaxTagKeyLen == 64

kMaxTagValueLen == 64

kMaxNestingDepth == 4

\* the tokens
Punct(c) == [t |-> c, s |-> <<>>, v |-> 0]

Str(s) == [t |-> "str", s |-> s, v |-> 0]

Num(v) == [t |-> "num", s |-> <<>>, v |-> v]

\* the keys of the schema
KeyAgentId == <<97, 103, 101, 110, 116, 95, 105, 100>>

KeySeq == <<115, 101, 113>>

KeyMetrics == <<109, 101, 116, 114, 105, 99, 115>>

KeyN == <<110>>

KeyV == <<118>>

KeyU == <<117>>

KeyT == <<116>>

peek(input, pos) == IF pos < Len(input) THEN input[pos + 1] ELSE Punct("eof")

\* expect(c): whether the next token is c; the caller advances when it is
expect(input, pos, c) == peek(input, pos).t = c

\* parse_string, parse_integer and parse_number: the token's value and the
\* position after it, or failure
parse_string(input, pos) ==
    IF peek(input, pos).t = "str"
    THEN [ok |-> TRUE, value |-> peek(input, pos).s, pos |-> pos + 1]
    ELSE [ok |-> FALSE, value |-> <<>>, pos |-> pos]

parse_integer(input, pos) ==
    IF peek(input, pos).t = "num"
    THEN [ok |-> TRUE, value |-> peek(input, pos).v, pos |-> pos + 1]
    ELSE [ok |-> FALSE, value |-> 0, pos |-> pos]

parse_number(input, pos) ==
    IF peek(input, pos).t = "num"
    THEN [ok |-> TRUE, value |-> Finite(peek(input, pos).v), pos |-> pos + 1]
    ELSE [ok |-> FALSE, value |-> Finite(0), pos |-> pos]

\* validate_agent_id: ^[a-zA-Z0-9_.-]+$
validate_agent_id(s) ==
    /\ s # <<>>
    /\ \A i \in 1 .. Len(s) :
           IsLetter(s[i]) \/ IsDigit(s[i]) \/ s[i] \in {95, 46, 45}

\* what parse_tags, parse_metric and parse_metrics_array return: the drop
\* reason ("" for std::nullopt), pos_ and depth_ after the call, and the
\* object they were given by reference
Step(err, pos, depth, obj) ==
    [err |-> err, pos |-> pos, depth |-> depth, obj |-> obj]

\* metric.tags[metric.tag_count] = {key, val}; ++metric.tag_count
store_tag(metric, key, val) ==
    [metric EXCEPT
        !.tags = SubSeq(@, 1, metric.tag_count)
                     \o <<[key |-> key, value |-> val]>>,
        !.tag_hi = Max(@, metric.tag_count),
        !.tag_count = @ + 1]

\* one iteration of the loop of parse_tags; "continue" for the next one
parse_tags_iteration(input, pos, depth, metric) ==
    LET key == parse_string(input, pos)
        val == parse_string(input, key.pos + 1)
        stored == store_tag(metric, key.value, val.value)
    IN  IF metric.tag_count >= kMaxTags
        THEN Step("TooManyTags", pos, depth, metric)
        ELSE IF ~key.ok THEN Step("InvalidJson", pos, depth, metric)
        ELSE IF Len(key.value) > kMaxTagKeyLen
        THEN Step("TagKeyTooLong", key.pos, depth, metric)
        ELSE IF ~expect(input, key.pos, ":")
        THEN Step("InvalidJson", key.pos, depth, metric)
        ELSE IF ~val.ok
        THEN Step("InvalidFieldType", val.pos, depth, metric)
        ELSE IF Len(val.value) > kMaxTagValueLen
        THEN Step("TagValueTooLong", val.pos, depth, metric)
        ELSE IF expect(input, val.pos, "}")
        THEN Step("", val.pos + 1, depth - 1, stored)
        ELSE IF ~expect(input, val.pos, ",")
        THEN Step("InvalidJson", val.pos, depth, stored)
        ELSE Step("continue", val.pos + 1, depth, stored)

\* the loop of parse_tags
RECURSIVE parse_tags_loop(_, _, _, _)
parse_tags_loop(input, pos, depth, metric) ==
    LET again(s) ==
            IF s.err = "continue"
            THEN parse_tags_loop(input, s.pos, s.depth, s.obj)
            ELSE s
    IN  again(parse_tags_iteration(input, pos, depth, metric))

parse_tags(input, pos, depth, metric) ==
    IF ~expect(input, pos, "{")
    THEN Step("InvalidFieldType", pos, depth, metric)
    ELSE IF depth + 1 > kMaxNestingDepth
    THEN Step("NestingTooDeep", pos + 1, depth + 1, metric)
    ELSE IF expect(input, pos + 1, "}")
    THEN Step("", pos + 2, depth, metric)
    ELSE parse_tags_loop(input, pos + 1, depth + 1, metric)

\* one iteration of the loop of parse_metric, with the checks that follow
\* the loop when it ends; the metric carries has_name and has_value
parse_metric_iteration(input, pos, depth, metric) ==
    LET key == parse_string(input, pos)
        at == key.pos + 1
        str == parse_string(input, at)
        num == parse_number(input, at)
        field(tags) ==
            IF key.value = KeyN
            THEN IF ~str.ok THEN Step("InvalidFieldType", at, depth, metric)
                 ELSE IF Len(str.value) > kMaxMetricNameLen
                 THEN Step("MetricNameTooLong", str.pos, depth, metric)
                 ELSE Step("", str.pos, depth,
                           [metric EXCEPT !.name = str.value,
                                          !.has_name = TRUE])
            ELSE IF key.value = KeyV
            THEN IF ~num.ok
                 THEN Step("MetricValueNotNumber", at, depth, metric)
                 ELSE Step("", num.pos, depth,
                           [metric EXCEPT !.value = num.value,
                                          !.has_value = TRUE])
            ELSE IF key.value = KeyU
            THEN IF ~str.ok THEN Step("InvalidFieldType", at, depth, metric)
                 ELSE IF Len(str.value) > kMaxUnitLen
                 THEN Step("UnitTooLong", str.pos, depth, metric)
                 ELSE Step("", str.pos, depth,
                           [metric EXCEPT !.unit = str.value])
            ELSE IF key.value = KeyT THEN tags
            ELSE Step("UnexpectedField", at, depth, metric)
        separator(after) ==
            IF after.err # "" THEN after
            ELSE IF expect(input, after.pos, "}")
            THEN IF ~after.obj.has_name
                 THEN Step("MetricMissingName", after.pos + 1, depth - 1,
                           after.obj)
                 ELSE IF ~after.obj.has_value
                 THEN Step("MetricMissingValue", after.pos + 1, depth - 1,
                           after.obj)
                 ELSE Step("", after.pos + 1, depth - 1, after.obj)
            ELSE IF ~expect(input, after.pos, ",")
            THEN Step("InvalidJson", after.pos, depth, after.obj)
            ELSE Step("continue", after.pos + 1, depth, after.obj)
    IN  IF ~key.ok THEN Step("InvalidJson", pos, depth, metric)
        ELSE IF ~expect(input, key.pos, ":")
        THEN Step("InvalidJson", key.pos, depth, metric)
        ELSE separator(field(parse_tags(input, at, depth, metric)))

\* the loop of parse_metric
RECURSIVE parse_metric_loop(_, _, _, _)
parse_metric_loop(input, pos, depth, metric) ==
    LET again(s) ==
            IF s.err = "continue"
            THEN parse_metric_loop(input, s.pos, s.depth, s.obj)
            ELSE s
    IN  again(parse_metric_iteration(input, pos, depth, metric))

\* the metric as parse_metric resets it before its loop
ResetMetric ==
    [name |-> <<>>, value |-> Finite(0), unit |-> <<>>, tags |-> <<>>,
     tag_count |-> 0, tag_hi |-> -1, has_name |-> FALSE,
     has_value |-> FALSE]

parse_metric(input, pos, depth) ==
    IF ~expect(input, pos, "{")
    THEN Step("InvalidJson", pos, depth, ResetMetric)
    ELSE IF depth + 1 > kMaxNestingDepth
    THEN Step("NestingTooDeep", pos + 1, depth + 1, ResetMetric)
    ELSE IF expect(input, pos + 1, "}")
    THEN Step("MetricMissingName", pos + 2, depth, ResetMetric)
    ELSE parse_metric_loop(input, pos + 1, depth + 1, ResetMetric)

\* parse_metric(result.metrics[result.metric_count]) has written the slot
store_metric(result, metric) ==
    [result EXCEPT
        !.metrics = SubSeq(@, 1, result.metric_count) \o <<metric>>,
        !.metric_hi = Max(@, result.metric_count),
        !.tag_hi = Max(@, metric.tag_hi)]

parse_metrics_array_iteration_off_by_one(input, pos, depth, result) ==
    LET after(r, written, counted) ==
            IF r.err # "" THEN Step(r.err, r.pos, r.depth, written)
            ELSE IF expect(input, r.pos, "]")
            THEN Step("", r.pos + 1, depth - 1, counted)
            ELSE IF ~expect(input, r.pos, ",")
            THEN Step("InvalidJson", r.pos, depth, counted)
            ELSE Step("continue", r.pos + 1, depth, counted)
        slot(r, written) ==
            after(r, written, [written EXCEPT !.metric_count = @ + 1])
        element(r) == slot(r, store_metric(result, r.obj))
    IN  IF result.metric_count > kMaxMetrics
        THEN Step("TooManyMetrics", pos, depth, result)
        ELSE element(parse_metric(input, pos, depth))

\* one iteration of the loop of parse_metrics_array
parse_metrics_array_iteration(input, pos, depth, result) ==
    LET after(r, written, counted) ==
            IF r.err # "" THEN Step(r.err, r.pos, r.depth, written)
            ELSE IF expect(input, r.pos, "]")
            THEN Step("", r.pos + 1, depth - 1, counted)
            ELSE IF ~expect(input, r.pos, ",")
            THEN Step("InvalidJson", r.pos, depth, counted)
            ELSE Step("continue", r.pos + 1, depth, counted)
        slot(r, written) ==
            after(r, written, [written EXCEPT !.metric_count = @ + 1])
        element(r) == slot(r, store_metric(result, r.obj))
    IN  IF result.metric_count >= kMaxMetrics
        THEN Step("TooManyMetrics", pos, depth, result)
        ELSE element(parse_metric(input, pos, depth))

\* the loop of parse_metrics_array
RECURSIVE parse_metrics_array_loop(_, _, _, _)
parse_metrics_array_loop(input, pos, depth, result) ==
    LET again(s) ==
            IF s.err = "continue"
            THEN parse_metrics_array_loop(input, s.pos, s.depth, s.obj)
            ELSE s
    IN  again(parse_metrics_array_iteration(input, pos, depth, result))

parse_metrics_array(input, pos, depth, result) ==
    IF ~expect(input, pos, "[")
    THEN Step("InvalidFieldType", pos, depth, result)
    ELSE IF depth + 1 > kMaxNestingDepth
    THEN Step("NestingTooDeep", pos + 1, depth + 1, result)
    ELSE IF expect(input, pos + 1, "]")
    THEN Step("", pos + 2, depth,
              [result EXCEPT !.metric_count = 0, !.metrics = <<>>])
    ELSE parse_metrics_array_loop(input, pos + 1, depth + 1, result)

\* what parse returns: a ParsedMetrics or a MetricsDropReason; on a drop
\* the record also shows the local result at the return
MetricsReturn(kind, result) == [result EXCEPT !.kind = kind]

\* the local result of JsonParser::parse before the root loop
ParseMetricsLocals ==
    [kind |-> "none", agent_id |-> <<>>, seq |-> 0, ts |-> 0,
     metrics |-> <<>>, metric_count |-> 0, metric_hi |-> -1, tag_hi |-> -1,
     has_agent_id |-> FALSE, has_seq |-> FALSE, has_metrics |-> FALSE]

\* one iteration of the loop of parse over the fields of the root object,
\* with the check that follows the loop when it ends
parse_root_iteration(input, pos, result) ==
    LET key == parse_string(input, pos)
        at == key.pos + 1
        str == parse_string(input, at)
        int == parse_integer(input, at)
        field(arr) ==
            IF key.value = KeyAgentId
            THEN IF ~str.ok THEN Step("InvalidFieldType", at, 0, result)
                 ELSE IF Len(str.value) > kMaxAgentIdLen
                 THEN Step("AgentIdTooLong", str.pos, 0, result)
                 ELSE IF ~validate_agent_id(str.value)
                 THEN Step("AgentIdInvalidChars", str.pos, 0, result)
                 ELSE Step("", str.pos, 0,
                           [result EXCEPT !.agent_id = str.value,
                                          !.has_agent_id = TRUE])
            ELSE IF key.value = KeySeq
            THEN IF ~int.ok THEN Step("InvalidFieldType", at, 0, result)
                 ELSE Step("", int.pos, 0,
                           [result EXCEPT !.seq = int.value,
                                          !.has_seq = TRUE])
            ELSE IF key.value = KeyTs
            THEN IF ~int.ok THEN Step("InvalidFieldType", at, 0, result)
                 ELSE Step("", int.pos, 0,
                           [result EXCEPT !.ts = ToUint64(int.value)])
            ELSE IF key.value = KeyMetrics
            THEN IF arr.err # "" THEN arr
                 ELSE Step("", arr.pos, arr.depth,
                           [arr.obj EXCEPT !.has_metrics = TRUE])
            ELSE Step("UnexpectedField", at, 0, result)
        separator(after) ==
            IF after.err # "" THEN after
            ELSE IF expect(input, after.pos, "}")
            THEN IF ~after.obj.has_agent_id \/ ~after.obj.has_seq
                    \/ ~after.obj.has_metrics
                 THEN Step("MissingRequiredField", after.pos + 1, 0,
                           after.obj)
                 ELSE Step("ParsedMetrics", after.pos + 1, 0, after.obj)
            ELSE IF ~expect(input, after.pos, ",")
            THEN Step("InvalidJson", after.pos, 0, after.obj)
            ELSE Step("continue", after.pos + 1, 0, after.obj)
    IN  IF ~key.ok THEN Step("InvalidJson", pos, 0, result)
        ELSE IF ~expect(input, key.pos, ":")
        THEN Step("InvalidJson", key.pos, 0, result)
        ELSE separator(field(parse_metrics_array(input, at, 0, result)))

\* the loop of parse and its return
RECURSIVE parse_root_loop(_, _, _)
parse_root_loop(input, pos, result) ==
    LET again(s) ==
            IF s.err = "continue" THEN parse_root_loop(input, s.pos, s.obj)
            ELSE MetricsReturn(s.err, s.obj)
    IN  again(parse_root_iteration(input, pos, result))

\* JsonParser::parse; the size bound is on the bytes of the input, which a
\* sequence of tokens does not show
JsonParser_parse(input) ==
    IF ~expect(input, 0, "{")
    THEN MetricsReturn("InvalidJson", ParseMetricsLocals)
    ELSE IF expect(input, 1, "}")
    THEN MetricsReturn("MissingRequiredField", ParseMetricsLocals)
    ELSE parse_root_loop(input, 1, ParseMetricsLocals)

parse_metrics(input) == JsonParser_parse(input)

(***************************************************************************)
(* parse_metrics as the system.  A message is described by the sizes of    *)
(* its "metrics" arrays, one per "metrics" key in the order they appear,   *)
(* and the sizes of the "t" objects that the last metric of every array    *)
(* carries, one per "t" key; MessageTokens writes it out the way the       *)
(* tests build their inputs.  A few malformed messages are given by their  *)
(* tokens.                                                                 *)
(***************************************************************************)
MaxMetricsKeys == 2

MaxTagsKeys == 2

MetricCounts == {0, 1, kMaxMetrics - 1, kMaxMetrics, kMaxMetrics + 1}

TagCounts == {0, 1, kMaxTags - 1, kMaxTags, kMaxTags + 1}

\* the token sequences of parts, with sep between every two of them
RECURSIVE JoinTokens(_, _)
JoinTokens(parts, sep) ==
    IF parts = <<>> THEN <<>>
    ELSE IF Len(parts) = 1 THEN parts[1]
    ELSE parts[1] \o <<sep>> \o JoinTokens(Tail(parts), sep)

\* "k":"x"
TagTokens == <<Str(<<107>>), Punct(":"), Str(<<120>>)>>

\* "t":{ n tags }
TagsKeyTokens(n) ==
    <<Str(KeyT), Punct(":"), Punct("{")>>
        \o JoinTokens([i \in 1 .. n |-> TagTokens], Punct(","))
        \o <<Punct("}")>>

\* {"n":"m","v":1} followed, inside the braces, by the "t" keys of tags
MetricTokens(tags) ==
    <<Punct("{")>>
        \o JoinTokens(
               << <<Str(KeyN), Punct(":"), Str(<<109>>)>>,
                  <<Str(KeyV), Punct(":"), Num(1)>> >>
               \o [i \in 1 .. Len(tags) |-> TagsKeyTokens(tags[i])],
               Punct(","))
        \o <<Punct("}")>>

\* n times the tokens of part, each followed by sep
RepeatTokens(part, sep, n) ==
    [i \in 1 .. n * (Len(part) + 1) |->
        IF (i - 1) % (Len(part) + 1) = Len(part) THEN sep
        ELSE part[((i - 1) % (Len(part) + 1)) + 1]]

\* "metrics":[ count metrics, the last one with the tags ]
MetricsKeyTokens(count, tags) ==
    <<Str(KeyMetrics), Punct(":"), Punct("[")>>
        \o (IF count = 0 THEN <<>>
            ELSE RepeatTokens(MetricTokens(<<>>), Punct(","), count - 1)
                     \o MetricTokens(tags))
        \o <<Punct("]")>>

\* {"agent_id":"a","seq":1, and the "metrics" keys of the message }
MessageTokens(counts, tags) ==
    <<Punct("{")>>
        \o JoinTokens(
               << <<Str(KeyAgentId), Punct(":"), Str(<<97>>)>>,
                  <<Str(KeySeq), Punct(":"), Num(1)>> >>
               \o [i \in 1 .. Len(counts) |->
                       MetricsKeyTokens(counts[i], tags)],
               Punct(","))
        \o <<Punct("}")>>

\* a message: what it is made of, and its tokens
Message(counts, tags) ==
    [counts |-> counts, tags |-> tags, made |-> TRUE,
     tokens |-> MessageTokens(counts, tags)]

RawMessage(tokens) ==
    [counts |-> <<>>, tags |-> <<>>, made |-> FALSE, tokens |-> tokens]

RawMessages ==
    {   RawMessage(<<>>),
        RawMessage(<<Punct("{"), Punct("}")>>),
        \* {"x":1}
        RawMessage(<<Punct("{"), Str(<<120>>), Punct(":"), Num(1),
                     Punct("}")>>),
        \* {"agent_id":"a","seq":1}
        RawMessage(MessageTokens(<<>>, <<>>)),
        \* {"agent_id":"a","metrics":[{"n":"m","v":1},]}
        RawMessage(<<Punct("{"), Str(KeyAgentId), Punct(":"), Str(<<97>>),
                     Punct(","), Str(KeyMetrics), Punct(":"), Punct("[")>>
                   \o MetricTokens(<<>>)
                   \o <<Punct(","), Punct("]"), Punct("}")>>),
        \* {"metrics":[{"n":"m"}]}
        RawMessage(<<Punct("{"), Str(KeyMetrics), Punct(":"), Punct("["),
                     Punct("{"), Str(KeyN), Punct(":"), Str(<<109>>),
                     Punct("}"), Punct("]"), Punct("}")>>),
        \* {"metrics":[{"v":1,"t":[]}]}
        RawMessage(<<Punct("{"), Str(KeyMetrics), Punct(":"), Punct("["),
                     Punct("{"), Str(KeyV), Punct(":"), Num(1), Punct(","),
                     Str(KeyT), Punct(":"), Punct("["), Punct("]"),
                     Punct("}"), Punct("]"), Punct("}")>>) }

\* the arrays that are given every choice of tags
TaggedCounts ==
    {<<1>>, <<kMaxMetrics>>, <<kMaxMetrics + 1>>, <<kMaxMetrics - 1, 1>>}

\* every choice of arrays without tags, a few of them with every choice
\* of tags, and the malformed messages
Messages ==
    {Message(counts, <<>>) :
        counts \in SeqsUpTo(MetricCounts, MaxMetricsKeys) \ {<<>>}}
    \cup {Message(counts, tags) :
            counts \in TaggedCounts, tags \in SeqsUpTo(TagCounts, MaxTagsKeys)}
    \cup RawMessages

ParseMetricsInit ==
    /\ pm_input \in Messages
    /\ pm_result = [kind |-> "none"]
    /\ PlogIdle
    /\ HostIdle
    /\ EnvIdle
    /\ ValIdle
    /\ FwdIdle
    /\ BqIdle
    /\ LimIdle

ParseMetrics ==
    /\ pm_result.kind = "none"
    /\ pm_result' = parse_metrics(pm_input.tokens)
    /\ UNCHANGED <<pm_input, plog_vars, host_vars>>
    /\ UNCHANGED <<fwd_vars, bq_vars, lim_vars, env_vars, met_vars, log_vars>>

ParseMetricsNext == ParseMetrics

SpecParseMetrics == ParseMetricsInit /\ [][ParseMetricsNext]_vars

RECURSIVE SumOf(_)
SumOf(s) == IF s = <<>> THEN 0 ELSE Head(s) + SumOf(Tail(s))

\* What the caps give for a message made of the arrays counts[i ..], with
\* c metrics counted so far: an empty array puts the count back to 0, an
\* array that takes the count beyond kMaxMetrics is TooManyMetrics, and the
\* tags of its last metric, more than kMaxTags in all, are TooManyTags.
RECURSIVE CapOutcome(_, _, _, _)
CapOutcome(counts, tags, i, c) ==
    IF i > Len(counts) THEN [kind |-> "ParsedMetrics", metric_count |-> c]
    ELSE IF counts[i] = 0 THEN CapOutcome(counts, tags, i + 1, 0)
    ELSE IF c + counts[i] > kMaxMetrics
    THEN [kind |-> "TooManyMetrics", metric_count |-> kMaxMetrics]
    ELSE IF SumOf(tags) > kMaxTags
    THEN [kind |-> "TooManyTags", metric_count |-> c + counts[i] - 1]
    ELSE CapOutcome(counts, tags, i + 1, c + counts[i])

\* C23: a message whose one metrics array has kMaxMetrics well-formed
\* entries is accepted with metric_count = kMaxMetrics and one with one
\* entry more is TooManyMetrics; on every path, repeated "metrics" and "t"
\* keys included, no metric slot at index >= kMaxMetrics and no tag slot at
\* index >= kMaxTags is written, every returned ParsedMetrics has
\* metric_count <= kMaxMetrics and every metric of it tag_count <= kMaxTags,
\* and the outcome is the one the two caps give for the running counts.
C23_MetricCap ==
    pm_result.kind # "none" =>
        /\ pm_result.metric_hi < kMaxMetrics
        /\ pm_result.tag_hi < kMaxTags
        /\ pm_result.kind = "ParsedMetrics" =>
            /\ pm_result.metric_count <= kMaxMetrics
            /\ Len(pm_result.metrics) = pm_result.metric_count
            /\ \A i \in 1 .. pm_result.metric_count :
                   pm_result.metrics[i].tag_count <= kMaxTags
        /\ pm_input.made =>
            /\ pm_result.kind =
                   CapOutcome(pm_input.counts, pm_input.tags, 1, 0).kind
            /\ pm_result.metric_count =
                   CapOutcome(pm_input.counts, pm_input.tags, 1,
                              0).metric_count
        /\ pm_input.made /\ pm_input.counts = <<kMaxMetrics>>
           /\ pm_input.tags = <<>> =>
               /\ pm_result.kind = "ParsedMetrics"
               /\ pm_result.metric_count = kMaxMetrics
        /\ pm_input.made /\ pm_input.counts = <<kMaxMetrics + 1>> =>
               pm_result.kind = "TooManyMetrics"

\* a second "metrics" key took the count from below the cap to the cap,
\* with a last metric whose two "t" keys filled its tags to the cap
C23_Witness ==
    /\ pm_input.made
    /\ pm_input.counts = <<kMaxMetrics - 1, 1>>
    /\ pm_input.tags = <<1, kMaxTags - 1>>
    /\ pm_result.kind = "ParsedMetrics"
    /\ pm_result.metric_count = kMaxMetrics
    /\ pm_result.metric_hi = kMaxMetrics - 1
    /\ pm_result.metrics[kMaxMetrics].tag_count = kMaxTags
    /\ pm_result.tag_hi = kMaxTags - 1

(***************************************************************************)
(* TB-1 receive: RecvLoop  (src/recv_loop.cpp)                             *)
(*                                                                         *)
(* recvfrom is the environment: every call gives a return value n, an      *)
(* errno, the bytes of the datagram and its source.  With MSG_TRUNC n is   *)
(* the size of the datagram even when it is larger than the buffer, and    *)
(* the kernel writes the first min(n, buffer size) bytes to the buffer.    *)
(***************************************************************************)
MaxDatagramBytes == 2

MaxRecvCalls == 3

EAGAIN == 11

EWOULDBLOCK == 11

\* errno after a failed recvfrom: EAGAIN, EINTR and ECONNREFUSED
Errnos == {EAGAIN, EWOULDBLOCK, 4, 111}

\* RecvLoop::RecvLoop(fd, config)
RecvLoop(fd, config) ==
    [fd_ |-> fd, config_ |-> config,
     buffer_ |-> [i \in 1 .. config.max_datagram_bytes |-> 0],
     metrics_ |-> [received |-> 0, truncated |-> 0, errors |-> 0]]

\* RecvResult result{}, with the status recv_one gives it first
NoResult ==
    [status |-> "Error",
     datagram |-> [data |-> <<>>, source |-> [ip |-> 0, port |-> 0]],
     error_code |-> 0]

\* what one call of recvfrom gives: n, errno, the datagram and its source
KernelResult(n, errno, byte, source) ==
    [n |-> n, errno |-> errno,
     packet |-> [i \in 1 .. n |-> byte], source |-> source]

\* buffer_ after recvfrom has written the datagram to it
recvfrom(buffer, k) ==
    [i \in 1 .. Len(buffer) |->
        IF i <= k.n THEN k.packet[i] ELSE buffer[i]]

recv_one_truncates_at_limit(l, k) ==
    LET buffer == recvfrom(l.buffer_, k)
        filled == [l EXCEPT !.buffer_ = buffer]
    IN  IF k.n < 0
        THEN IF k.errno = EAGAIN \/ k.errno = EWOULDBLOCK
             THEN [l |-> l, result |-> [NoResult EXCEPT !.status = "WouldBlock"]]
             ELSE [l |-> [l EXCEPT !.metrics_.errors = @ + 1],
                   result |-> [NoResult EXCEPT !.status = "Error",
                                               !.error_code = k.errno]]
        ELSE IF k.n >= Len(buffer)
        THEN [l |-> [filled EXCEPT !.metrics_.truncated = @ + 1],
              result |-> [NoResult EXCEPT !.status = "Truncated"]]
        ELSE [l |-> [filled EXCEPT !.metrics_.received = @ + 1],
              result |-> [NoResult EXCEPT
                  !.status = "Ok",
                  !.datagram.data = SubSeq(buffer, 1, k.n),
                  !.datagram.source = k.source]]

\* RecvLoop::recv_one with k what its recvfrom call gives: the RecvLoop
\* after the call and the RecvResult
recv_one(l, k) ==
    LET buffer == recvfrom(l.buffer_, k)
        filled == [l EXCEPT !.buffer_ = buffer]
    IN  IF k.n < 0
        THEN IF k.errno = EAGAIN \/ k.errno = EWOULDBLOCK
             THEN [l |-> l, result |-> [NoResult EXCEPT !.status = "WouldBlock"]]
             ELSE [l |-> [l EXCEPT !.metrics_.errors = @ + 1],
                   result |-> [NoResult EXCEPT !.status = "Error",
                                               !.error_code = k.errno]]
        ELSE IF k.n > Len(buffer)
        THEN [l |-> [filled EXCEPT !.metrics_.truncated = @ + 1],
              result |-> [NoResult EXCEPT !.status = "Truncated"]]
        ELSE [l |-> [filled EXCEPT !.metrics_.received = @ + 1],
              result |-> [NoResult EXCEPT
                  !.status = "Ok",
                  !.datagram.data = SubSeq(buffer, 1, k.n),
                  !.datagram.source = k.source]]

\* the calls of recvfrom: failures, and datagrams of every size up to one
\* byte more than the largest buffer
KernelResults ==
    {KernelResult(-1, e, 1, [ip |-> 0, port |-> 0]) : e \in Errnos}
    \cup {KernelResult(n, 0, b, [ip |-> 1, port |-> p]) :
            n \in 0 .. MaxDatagramBytes + 1, b \in {1, 2}, p \in {1, 2}}

RecvInit ==
    /\ \E max \in 0 .. MaxDatagramBytes :
           recv_loop = RecvLoop(3, [max_datagram_bytes |-> max])
    /\ rv_last = [kernel |-> KernelResult(0, 0, 0, [ip |-> 0, port |-> 0]),
                  result |-> NoResult]
    /\ rv_calls = 0
    /\ DaIdle
    /\ GwIdle
    /\ PlogIdle
    /\ PmIdle
    /\ EnvIdle
    /\ ValIdle
    /\ FwdIdle
    /\ BqIdle
    /\ LimIdle

RecvOne ==
    /\ rv_calls < MaxRecvCalls
    /\ \E k \in KernelResults :
           /\ recv_loop' = recv_one(recv_loop, k).l
           /\ rv_last' = [kernel |-> k, result |-> recv_one(recv_loop, k).result]
    /\ rv_calls' = rv_calls + 1
    /\ UNCHANGED <<plog_vars, pm_vars, da_vars, gw_vars>>
    /\ UNCHANGED <<fwd_vars, bq_vars, lim_vars, env_vars, met_vars, log_vars>>

RecvNext == RecvOne

SpecRecv == RecvInit /\ [][RecvNext]_vars

IsRecvOneStep == rv_calls' = rv_calls + 1

\* C24: recv_one maps what recvfrom gives to one status and one counter:
\* n < 0 with EAGAIN or EWOULDBLOCK is WouldBlock and no counter changes;
\* n < 0 with another errno is Error with error_code the errno and
\* errors + 1; n > max_datagram_bytes is Truncated with truncated + 1 and
\* no byte delivered; otherwise Ok with received + 1 and data the n bytes
\* of the datagram.  No delivered datagram is longer than
\* max_datagram_bytes.
C24_RecvOneStatus ==
    [][IsRecvOneStep =>
        LET k == rv_last'.kernel
            r == rv_last'.result
            m == recv_loop.metrics_
            max == recv_loop.config_.max_datagram_bytes
            would_block == k.n < 0 /\ k.errno \in {EAGAIN, EWOULDBLOCK}
            error == k.n < 0 /\ k.errno \notin {EAGAIN, EWOULDBLOCK}
        IN  /\ would_block =>
                /\ r.status = "WouldBlock"
                /\ recv_loop'.metrics_ = m
            /\ error =>
                /\ r.status = "Error"
                /\ r.error_code = k.errno
                /\ recv_loop'.metrics_ = [m EXCEPT !.errors = @ + 1]
            /\ k.n > max =>
                /\ r.status = "Truncated"
                /\ r.datagram.data = <<>>
                /\ recv_loop'.metrics_ = [m EXCEPT !.truncated = @ + 1]
            /\ k.n >= 0 /\ k.n <= max =>
                /\ r.status = "Ok"
                /\ r.datagram.data = k.packet
                /\ Len(r.datagram.data) = k.n
                /\ recv_loop'.metrics_ = [m EXCEPT !.received = @ + 1]
            /\ r.status = "Ok" => Len(r.datagram.data) <= max
            /\ recv_loop'.config_ = recv_loop.config_
    ]_vars

\* a datagram of exactly max_datagram_bytes was delivered after one of a
\* byte more was counted as truncated
C24_Witness ==
    /\ recv_loop.config_.max_datagram_bytes >= 1
    /\ rv_last.kernel.n = recv_loop.config_.max_datagram_bytes
    /\ rv_last.result.status = "Ok"
    /\ Len(rv_last.result.datagram.data)
           = recv_loop.config_.max_datagram_bytes
    /\ recv_loop.metrics_.truncated >= 1
    /\ recv_loop.metrics_.received >= 1

(***************************************************************************)
(* BoundedForwarder::drain_all  (src/forwarder.cpp:102-108)                *)
(*                                                                         *)
(* drain_all runs drain_one until it returns false, so one call is one     *)
(* step that makes all of these drain_one calls.  The members drain_one    *)
(* works on are taken as a record, drain_one is applied to the record, and *)
(* the sink answers each write of the call with the next entry of writes.  *)
(***************************************************************************)
\* the members of *this that drain_one reads or writes, and the sink's log
Forwarder ==
    [quota_tracker_ |-> quota_tracker_, queue_ |-> queue_,
     total_forwarded_ |-> total_forwarded_,
     dropped_queue_full_ |-> dropped_queue_full_,
     dropped_quota_ |-> dropped_quota_,
     sink_failures_ |-> sink_failures_,
     queued_log |-> queued_log, sink_log |-> sink_log]

\* drain_one on the members f: the members after the call and what it
\* returned
drain_one_of(f, write_ok) ==
    LET p == BQ_try_pop(f.queue_, FALSE, NoEvent) IN
    IF ~p.has
    THEN [f |-> f, result |-> FALSE]
    ELSE [f |-> [f EXCEPT
                   !.queue_ = p.q,
                   !.quota_tracker_ = release(@, p.item.agent_id),
                   !.sink_log = Append(@, p.item),
                   !.total_forwarded_ = IF write_ok THEN @ + 1 ELSE @,
                   !.sink_failures_ = IF write_ok THEN @ ELSE @ + 1],
          result |-> TRUE]

\* while (drain_one()) ++count;
RECURSIVE drain_all_loop(_, _, _)
drain_all_loop(f, writes, count) ==
    LET body(d) ==
            IF d.result
            THEN drain_all_loop(d.f, Tail(writes), count + 1)
            ELSE [f |-> d.f, count |-> count]
    IN  body(drain_one_of(f, writes # <<>> /\ Head(writes)))

\* drain_all with writes what Sink::write returns, call by call
drain_all(writes) ==
    LET r == drain_all_loop(Forwarder, writes, 0) IN
    /\ quota_tracker_' = r.f.quota_tracker_
    /\ queue_' = r.f.queue_
    /\ total_forwarded_' = r.f.total_forwarded_
    /\ sink_failures_' = r.f.sink_failures_
    /\ sink_log' = r.f.sink_log
    /\ drained' = r.count
    /\ last_call' = [op |-> "drain_all", agent_id |-> "",
                     result |-> "count", write |-> "none"]

\* a caller runs drain_all; the sink accepts or rejects each write
DrainAll ==
    /\ \E writes \in [1 .. BQ_size(queue_) -> BOOLEAN] : drain_all(writes)
    /\ UNCHANGED <<config_, dropped_queue_full_, dropped_quota_, next_id,
                   queued_log>>
    /\ UNCHANGED <<bq_vars, lim_vars, env_vars, met_vars, log_vars,
                   plog_vars, pm_vars, rv_vars, gw_vars>>

DrainAllNext == TryForward \/ DrainOne \/ DrainAll

SpecDrainAll == Init /\ [][DrainAllNext]_vars

\* this step is a call of drain_all
IsDrainAllStep == last_call'.op = "drain_all"

\* what drain_one_of says a drain_one step does
DrainOneAgrees ==
    [][ (IsDrainOneStep /\ last_call'.op = "drain_one") =>
        \E write_ok \in BOOLEAN :
            /\ Forwarder' = drain_one_of(Forwarder, write_ok).f
            /\ (last_call'.result = "true")
                   = drain_one_of(Forwarder, write_ok).result ]_vars

\* drain_all as claimed, but for the entries of the in-flight map
DrainAllEmptiesQueue ==
    /\ drained' = BQ_size(queue_)
    /\ sink_log' = sink_log \o BQ_contents(queue_)
    /\ Len(sink_log') = Len(sink_log) + drained'
    /\ total_forwarded_' + sink_failures_'
           = total_forwarded_ + sink_failures_ + drained'
    /\ BQ_empty(queue_')
    /\ total_in_flight(quota_tracker_') = 0
    /\ BQ_empty(queue_) => drained' = 0 /\ sink_log' = sink_log

\* C25: every drain_all call returns the queue depth at the time of the
\* call, hands each drained event to Sink::write once, and leaves the queue
\* empty with tracked_agents() = 0 and total_in_flight() = 0; on an empty
\* queue it returns 0 and does not call the sink.
C25_DrainAll ==
    [][ IsDrainAllStep =>
            /\ DrainAllEmptiesQueue
            /\ tracked_agents(quota_tracker_') = 0 ]_vars

\* the same with a quota of at least one event per agent
C25_DrainAllWithQuota ==
    [][ (IsDrainAllStep /\ config_.max_per_agent >= 1) =>
            /\ DrainAllEmptiesQueue
            /\ tracked_agents(quota_tracker_') = 0 ]_vars

\* every call leaves the queue empty and nothing in flight
C25_DrainAllButMap == [][ IsDrainAllStep => DrainAllEmptiesQueue ]_vars

\* a drain_all that drained two events of two agents, one write failing
C25_DrainedTwo ==
    /\ last_call.op = "drain_all"
    /\ drained = 2
    /\ sink_failures_ >= 1
    /\ total_forwarded_ >= 1
    /\ BQ_empty(queue_)
    /\ Cardinality({sink_log[i].agent_id : i \in 1 .. Len(sink_log)}) = 2

(***************************************************************************)
(* Counter conservation of the BoundedForwarder, checked under Spec        *)
(***************************************************************************)
\* try_forward calls made so far: every call takes the next payload id
TryForwardCalls == next_id - 1

\* try_forward calls that returned Queued
QueuedResults == Len(queued_log)

\* the calls are accounted for by their results and the queued events by
\* where they are now
CountersConserved ==
    /\ TryForwardCalls
           = QueuedResults + dropped_quota_ + dropped_queue_full_
    /\ QueuedResults = queue_depth + total_forwarded_ + sink_failures_
    /\ dropped_quota_ = quota_rejections(quota_tracker_)

\* none of the four counters of the forwarder decreases in this step
CountersGrow ==
    /\ total_forwarded_' >= total_forwarded_
    /\ dropped_queue_full_' >= dropped_queue_full_
    /\ dropped_quota_' >= dropped_quota_
    /\ sink_failures_' >= sink_failures_

\* C28: after any sequence of try_forward and drain_one calls the number of
\* try_forward calls is the number of Queued results plus
\* total_dropped_quota plus total_dropped_queue_full, the number of Queued
\* results is queue_depth plus total_forwarded plus total_sink_failures,
\* total_dropped_quota equals quota_rejections(), and none of the four
\* counters ever decreases.
C28_CounterConservation == []CountersConserved /\ [][CountersGrow]_vars

\* every counter has grown and an event is still queued
C28_Witness ==
    /\ total_forwarded_ >= 1
    /\ sink_failures_ >= 1
    /\ dropped_quota_ >= 1
    /\ dropped_queue_full_ >= 1
    /\ queue_depth >= 1

(***************************************************************************)
(* Hand-off to the sink when drain_one keeps being called.  The callers    *)
(* of the forwarder run drain_one again and again (the host loop calls it  *)
(* on every iteration), which is weak fairness of DrainOne; the sink stays *)
(* free to fail any write.                                                 *)
(***************************************************************************)
MaxHandOffCalls == 4

\* a caller hands an event to try_forward, MaxHandOffCalls times at most
HandOffTryForward == next_id <= MaxHandOffCalls /\ TryForward

HandOffNext == HandOffTryForward \/ DrainOne

SpecFair == Init /\ [][HandOffNext]_vars /\ WF_vars(DrainOne)

\* what the sink has been handed is the beginning of what was queued: no
\* event twice, none skipped, none out of order, and the rest is queued
HandedOffOnce ==
    /\ Len(sink_log) <= Len(queued_log)
    /\ SubSeq(queued_log, 1, Len(sink_log)) = sink_log
    /\ SubSeq(queued_log, Len(sink_log) + 1, Len(queued_log))
           = BQ_contents(queue_)
    /\ \A i, j \in 1 .. Len(sink_log) :
           sink_log[i] = sink_log[j] => i = j

\* the call before this try_forward drained an event of the same agent
DrainedOneOfCaller ==
    /\ last_call.op = "drain_one"
    /\ last_call.result = "true"
    /\ last_call.agent_id = last_call'.agent_id

\* an agent whose event has just been drained is accepted when the queue
\* has room
AcceptedAfterDrain ==
    (IsTryForwardStep /\ DrainedOneOfCaller /\ ~BQ_full(queue_))
        => last_call'.result = "Queued"

\* the k-th event queued is eventually the k-th event written
EveryQueuedEventWritten ==
    \A k \in 1 .. MaxHandOffCalls :
        (Len(queued_log) >= k) ~> (Len(sink_log) >= k /\ HandedOffOnce)

\* C29: with drain_one called again and again, every event for which
\* try_forward returned Queued is handed to Sink::write exactly once, in
\* queue order, whether earlier writes failed or not; an agent one of whose
\* events has just been drained is accepted again when the queue is not
\* full.
C29_ExactlyOnceHandOff ==
    /\ []HandedOffOnce
    /\ [][AcceptedAfterDrain]_vars
    /\ EveryQueuedEventWritten

\* an agent was rejected for its quota, one of its events was drained and
\* its next event was queued
C29_Witness ==
    /\ last_call.op = "try_forward"
    /\ last_call.result = "Queued"
    /\ dropped_quota_ >= 1
    /\ dropped_queue_full_ = 0
    /\ Len(sink_log) = 1
    /\ sink_log[1].agent_id = last_call.agent_id
    /\ in_flight_count(quota_tracker_, last_call.agent_id)
           = config_.max_per_agent
    /\ config_.max_per_agent < config_.max_queue_depth

(***************************************************************************)
(* The message of a ValidatedLog, checked under SpecLog                    *)
(***************************************************************************)
\* C30 as claimed: for every LogValidationConfig, validate_log never
\* returns a ValidatedLog whose msg is empty.
C30_Original ==
    log_result.kind = "ValidatedLog" => log_result.msg # << >>

\* C30 amended: validate_log never returns a ValidatedLog whose msg is
\* empty when max_message_length >= 1 or truncation is off; a parsed log
\* with an empty msg is always dropped with MessageEmpty unless an earlier
\* check drops it.
C30_NoEmptyMessage ==
    /\ ( log_result.kind = "ValidatedLog"
         /\ ( log_input.config.max_message_length >= 1
              \/ ~log_input.config.truncate_oversized_message ) )
       => log_result.msg # << >>
    /\ ( log_result.kind = "ValidatedLog" /\ log_result.msg = << >> )
       => /\ log_input.parsed.msg # << >>
          /\ log_input.config.max_message_length = 0
          /\ log_input.config.truncate_oversized_message

\* a message of three characters was cut to its first character
C30_Witness ==
    /\ log_result.kind = "ValidatedLog"
    /\ log_input.config.truncate_oversized_message
    /\ log_input.config.max_message_length = 1
    /\ Len(log_input.parsed.msg) = 3
    /\ Len(log_result.msg) = 1

(***************************************************************************)
(* The host: the loop of main  (demos/gateway_server.cpp:218-354)          *)
(*                                                                         *)
(* One iteration is one step: recv_one, then for a datagram received Ok    *)
(* the stages TB-1.5 admit, TB-2 parse_envelope, TB-3 parse, TB-4 validate *)
(* and TB-5 try_forward, then drain_one.  The loop is the only thread that *)
(* touches the forwarder.  A datagram is its bytes; the body of a JSON     *)
(* datagram comes with the tokens those bytes lex to.                      *)
(***************************************************************************)
\* iterations of the loop explored
MaxIterations == 3

\* try_forward on the members f: the members after the call and what it
\* returned
try_forward_of(f, event) ==
    LET pushed(r, p) ==
            IF p.result = "Dropped"
            THEN [f |-> [f EXCEPT
                           !.queue_ = p.q,
                           !.quota_tracker_ = release(r.t, event.agent_id),
                           !.dropped_queue_full_ = @ + 1],
                  result |-> "DroppedQueueFull"]
            ELSE [f |-> [f EXCEPT
                           !.queue_ = p.q,
                           !.quota_tracker_ = r.t,
                           !.queued_log = Append(@, event)],
                  result |-> "Queued"]
        reserved(r) ==
            IF ~r.ok
            THEN [f |-> [f EXCEPT !.quota_tracker_ = r.t,
                                  !.dropped_quota_ = @ + 1],
                  result |-> "DroppedAgentQuotaExceeded"]
            ELSE pushed(r, BQ_try_push(f.queue_, event))
    IN  reserved(try_reserve(f.quota_tracker_, event.agent_id))

\* Stats stats;
NoStats ==
    [received |-> 0, source_limited |-> 0, envelope_drops |-> 0,
     parse_drops |-> 0, validation_drops |-> 0, forwarded |-> 0,
     queue_drops |-> 0, quota_drops |-> 0]

\* text.find(pattern) != npos
Contains(text, pattern) ==
    \E i \in 0 .. Len(text) - Len(pattern) :
        SubSeq(text, i + 1, i + Len(pattern)) = pattern

\* "metrics" with its quotes
QuotedMetrics == <<34>> \o KeyMetrics \o <<34>>

detect_message_type(body) ==
    IF body = <<>> THEN "Unknown"
    ELSE IF body[1] = 123
    THEN IF Contains(body, QuotedMetrics) THEN "Metrics" ELSE "Unknown"
    ELSE IF /\ Contains(body, KeyTs \o <<61>>)
            /\ Contains(body, KeyLevel \o <<61>>)
            /\ Contains(body, KeyMsg \o <<61>>)
    THEN "Log"
    ELSE "Unknown"

\* std::string(validated.agent_id) as the events of the forwarder carry it
AgentIdString(agent_id) ==
    IF agent_id = <<65>> THEN "A" ELSE IF agent_id = <<66>> THEN "B" ELSE ""

\* the span handed to parse_envelope
PayloadOf(data) ==
    Payload(Len(data),
            IF Len(data) >= 1 THEN data[1] ELSE 0,
            IF Len(data) >= 2 THEN data[2] ELSE 0)

\* parsed_body.body
BodyOf(data, envelope_result) ==
    SubSeq(data, envelope_result.offset + 1,
           envelope_result.offset + envelope_result.count)

\* MetricsValidationConfig metrics_validation, the window and the value
\* range scaled
metrics_validation ==
    [timestamp_window |-> [max_age_ms |-> 2, max_future_ms |-> 1],
     value_rules |-> MetricValueRules(-1, 1, TRUE, TRUE),
     require_timestamp |-> TRUE]

\* LogValidationConfig log_validation, the window scaled
log_validation ==
    [timestamp_window |-> [max_age_ms |-> 2, max_future_ms |-> 1],
     min_level |-> 0,
     max_message_length |-> 1024,
     truncate_oversized_message |-> TRUE,
     require_agent_id |-> FALSE]

\* the stages of the pipeline, in their order
Stages == <<"admit", "envelope", "parse", "validate", "forward">>

\* what the stages made of one datagram: the objects after it, the stages
\* that ran, what try_forward returned, and whether the iteration reaches
\* the drain_one that ends it
Run(l, f, st, ran, forward_result) ==
    [limiter |-> l, forwarder |-> f, stats |-> st,
     stages |-> SubSeq(Stages, 1, ran), forward |-> forward_result,
     drain |-> ran = Len(Stages)]

\* mutant of count_forward_result: a queued event is counted as a drop
count_forward_result_counts_queued(st, forward_result) ==
    IF forward_result = "DroppedQueueFull"
    THEN [st EXCEPT !.queue_drops = @ + 1]
    ELSE IF forward_result = "DroppedAgentQuotaExceeded"
    THEN [st EXCEPT !.quota_drops = @ + 1]
    ELSE [st EXCEPT !.queue_drops = @ + 1]

\* lines 300-304 and 333-337: the counter of what try_forward returned
count_forward_result(st, forward_result) ==
    IF forward_result = "DroppedQueueFull"
    THEN [st EXCEPT !.queue_drops = @ + 1]
    ELSE IF forward_result = "DroppedAgentQuotaExceeded"
    THEN [st EXCEPT !.quota_drops = @ + 1]
    ELSE st

\* TB-5 of either branch: the event of the validated message goes to
\* try_forward
forward_event(l, f, st, agent_id, id) ==
    LET forwarded(r) ==
            Run(l, r.f, count_forward_result(st, r.result), 5, r.result)
    IN  forwarded(try_forward_of(f, [agent_id |-> AgentIdString(agent_id),
                                     payload |-> id]))

\* the Metrics branch, lines 273-304
metrics_branch(l, f, st, tokens, now_ms, id) ==
    LET validated(validate_result) ==
            IF validate_result.kind # "ValidatedMetrics"
            THEN Run(l, f, [st EXCEPT !.validation_drops = @ + 1], 4, "none")
            ELSE forward_event(l, f, st, validate_result.agent_id, id)
        parsed(parse_result) ==
            IF parse_result.kind # "ParsedMetrics"
            THEN Run(l, f, [st EXCEPT !.parse_drops = @ + 1], 3, "none")
            ELSE validated(validate_metrics(parse_result, metrics_validation,
                                            now_ms))
    IN  parsed(parse_metrics(tokens))

\* the Log branch, lines 306-337
log_branch(l, f, st, body, now_ms, id) ==
    LET validated(validate_result) ==
            IF validate_result.kind # "ValidatedLog"
            THEN Run(l, f, [st EXCEPT !.validation_drops = @ + 1], 4, "none")
            ELSE forward_event(l, f, st, validate_result.agent_id, id)
        parsed(parse_result) ==
            IF parse_result.kind # "ParsedLog"
            THEN Run(l, f, [st EXCEPT !.parse_drops = @ + 1], 3, "none")
            ELSE validated(validate_log(parse_result, log_validation, now_ms))
    IN  parsed(parse_log(body))

\* lines 249-343: the stages on a datagram received with status Ok.  now is
\* the reading of the limiter's clock, now_ms what current_time_ms() returns,
\* tokens what the body lexes to, id the payload the event gets.
process_datagram(l, f, st, datagram, tokens, now, now_ms, id) ==
    LET typed(a, body, msg_type) ==
            IF msg_type = "Metrics"
            THEN metrics_branch(a.l, f, st, tokens, now_ms, id)
            ELSE IF msg_type = "Log"
            THEN log_branch(a.l, f, st, body, now_ms, id)
            ELSE Run(a.l, f, [st EXCEPT !.parse_drops = @ + 1], 3, "none")
        enveloped(a, envelope_result) ==
            IF envelope_result.kind # "ParsedBody"
            THEN Run(a.l, f, [st EXCEPT !.envelope_drops = @ + 1], 2, "none")
            ELSE typed(a, BodyOf(datagram.data, envelope_result),
                       detect_message_type(
                           BodyOf(datagram.data, envelope_result)))
        admitted(a) ==
            IF a.result = "Drop"
            THEN Run(a.l, f, [st EXCEPT !.source_limited = @ + 1], 1, "none")
            ELSE enveloped(a, parse_envelope(PayloadOf(datagram.data)))
    IN  admitted(admit(l, datagram.source, now, now))

\* one iteration of the loop: the objects after it and what it did
loop_iteration(rl, l, f, st, k, tokens, now, now_ms, write_ok, id) ==
    LET ended(r, run) ==
            [recv_loop |-> r.l,
             run |-> IF run.drain
                     THEN [run EXCEPT
                             !.forwarder =
                                 drain_one_of(run.forwarder, write_ok).f]
                     ELSE run,
             status |-> r.result.status]
        received(r) ==
            IF r.result.status = "WouldBlock"
            THEN [recv_loop |-> r.l,
                  run |-> [Run(l, drain_one_of(f, write_ok).f, st, 0, "none")
                              EXCEPT !.drain = TRUE],
                  status |-> r.result.status]
            ELSE IF r.result.status \in {"Error", "Truncated"}
            THEN [recv_loop |-> r.l, run |-> Run(l, f, st, 0, "none"),
                  status |-> r.result.status]
            ELSE ended(r, process_datagram(
                              l, f, [st EXCEPT !.received = @ + 1],
                              r.result.datagram, tokens, now, now_ms, id))
    IN  received(recv_one(rl, k))

\* RecvConfig recv_config, the buffer scaled from 1472 bytes to 64
recv_config == [max_datagram_bytes |-> 64]

\* SourceLimiterConfig limiter_config, scaled from 50 per second and a
\* burst of 100
limiter_config ==
    [max_sources |-> MaxSources, tokens_per_sec |-> 1, burst_tokens |-> 1]

\* the two-byte big-endian length, then the body
Frame(body) == <<Len(body) \div 256, Len(body) % 256>> \o body

Datagram(data, tokens) == [data |-> data, tokens |-> tokens]

\* ts=1 level=info msg=x agent=A, and the same of agent B
LogOfAgent(byte) == ThreeFieldLine \o <<32>> \o KeyAgent \o <<61, byte>>

\* {"agent_id":"A","ts":1,"metrics":[{"n":"m","v":1}]}
MetricsOfAgentA ==
    Datagram(
        Frame(<<123, 34, 97, 103, 101, 110, 116, 95, 105, 100, 34, 58, 34,
                65, 34, 44, 34, 116, 115, 34, 58, 49, 44, 34, 109, 101, 116,
                114, 105, 99, 115, 34, 58, 91, 123, 34, 110, 34, 58, 34, 109,
                34, 44, 34, 118, 34, 58, 49, 125, 93, 125>>),
        <<Punct("{"), Str(KeyAgentId), Punct(":"), Str(<<65>>), Punct(","),
          Str(KeyTs), Punct(":"), Num(1), Punct(","),
          Str(KeyMetrics), Punct(":"), Punct("[")>>
            \o MetricTokens(<<>>) \o <<Punct("]"), Punct("}")>>)

\* the datagrams that arrive: one for each way a stage ends a datagram,
\* and those that reach the forwarder
HostDatagrams ==
    {   Datagram(<<0>>, <<>>),                          \* PayloadTooSmall
        Datagram(Frame(<<104, 101, 108, 108, 111>>), <<>>),       \* hello
        \* {"x":1}
        Datagram(Frame(<<123, 34, 120, 34, 58, 49, 125>>),
                 <<Punct("{"), Str(<<120>>), Punct(":"), Num(1),
                   Punct("}")>>),
        \* ts=1 level=x msg=a
        Datagram(Frame(<<116, 115, 61, 49, 32, 108, 101, 118, 101, 108, 61,
                         120, 32, 109, 115, 103, 61, 97>>), <<>>),
        \* {"metrics":5}
        Datagram(Frame(<<123, 34, 109, 101, 116, 114, 105, 99, 115, 34, 58,
                         53, 125>>),
                 <<Punct("{"), Str(KeyMetrics), Punct(":"), Num(5),
                   Punct("}")>>),
        Datagram(Frame(LogOfAgent(65)), <<>>),
        Datagram(Frame(LogOfAgent(66)), <<>>),
        MetricsOfAgentA }

\* the sources datagrams come from
HostSources == {[ip |-> 1, port |-> 1], [ip |-> 2, port |-> 1]}

\* recvfrom finds no datagram
NoArrival ==
    [k |-> [n |-> -1, errno |-> EAGAIN, packet |-> <<>>,
            source |-> [ip |-> 0, port |-> 0]], tokens |-> <<>>]

\* recvfrom gives the datagram d, sent by source
Arrival(d, source) ==
    [k |-> [n |-> Len(d.data), errno |-> 0, packet |-> d.data,
            source |-> source], tokens |-> d.tokens]

\* what recvfrom gives in an iteration, with the tokens of the body: no
\* datagram, a failure, a datagram one byte larger than the buffer, or one
\* of the datagrams from one of the sources
Arrivals ==
    {   NoArrival,
        [k |-> [n |-> -1, errno |-> 4, packet |-> <<>>,
                source |-> [ip |-> 0, port |-> 0]], tokens |-> <<>>],
        [k |-> KernelResult(recv_config.max_datagram_bytes + 1, 0, 0,
                            [ip |-> 1, port |-> 1]), tokens |-> <<>>] }
    \cup {Arrival(d, [ip |-> 1, port |-> 1]) : d \in HostDatagrams}
    \cup {Arrival(Datagram(Frame(LogOfAgent(65)), <<>>), s) :
            s \in HostSources}

\* what current_time_ms() returns: inside the window of ts=1, and past it
WallClock == {2, 4}

\* ForwarderConfig forwarder_config, scaled from a queue of 256 events and
\* 16 in flight per agent
forwarder_config == [max_queue_depth |-> 2, max_per_agent |-> 1]

\* main up to the loop: the objects as lines 179-213 construct them
HostInit ==
    /\ recv_loop = RecvLoop(3, recv_config)
    /\ rv_last = [kernel |-> [n |-> 0], result |-> [status |-> "none"]]
    /\ rv_calls = 0
    /\ limiter = SourceLimiter(limiter_config)
    /\ clock_now = 0
    /\ allow_count = [s \in Sources |-> [t \in Times |-> 0]]
    /\ insertions = 0
    /\ lim_last = [op |-> "none", source |-> [ip |-> 0, port |-> 0],
                   result |-> "none", solo_result |-> "none"]
    /\ admit_calls = 0
    /\ recency = << >>
    /\ solo = [s \in Sources |->
                 SourceLimiter([max_sources |-> 0, tokens_per_sec |-> 0,
                                burst_tokens |-> 0])]
    /\ config_ = forwarder_config
    /\ quota_tracker_ = AgentQuotaTracker(config_.max_per_agent)
    /\ queue_ = BoundedQueue(config_.max_queue_depth, NoEvent)
    /\ total_forwarded_ = 0
    /\ dropped_queue_full_ = 0
    /\ dropped_quota_ = 0
    /\ sink_failures_ = 0
    /\ next_id = 1
    /\ last_call = [op |-> "none", agent_id |-> "", result |-> "none",
                    write |-> "none"]
    /\ queued_log = << >>
    /\ sink_log = << >>
    /\ stats = NoStats
    /\ gw_last = [status |-> "none", arrival |-> NoArrival,
                  stages |-> <<>>, forward |-> "none", drain |-> FALSE]
    /\ gw_iterations = 0
    /\ drained = 0
    /\ BqIdle
    /\ EnvIdle
    /\ ValIdle
    /\ PlogIdle
    /\ PmIdle

\* one iteration of the loop of main, while g_running
HostIteration ==
    /\ gw_last.status # "stopped"
    /\ gw_iterations < MaxIterations
    /\ \E arrival \in Arrivals, now \in {clock_now, clock_now + 1} \cap Times,
          now_ms \in WallClock, write_ok \in BOOLEAN :
          LET done(i) ==
                  /\ recv_loop' = i.recv_loop
                  /\ limiter' = i.run.limiter
                  /\ quota_tracker_' = i.run.forwarder.quota_tracker_
                  /\ queue_' = i.run.forwarder.queue_
                  /\ total_forwarded_' = i.run.forwarder.total_forwarded_
                  /\ dropped_queue_full_' = i.run.forwarder.dropped_queue_full_
                  /\ dropped_quota_' = i.run.forwarder.dropped_quota_
                  /\ sink_failures_' = i.run.forwarder.sink_failures_
                  /\ queued_log' = i.run.forwarder.queued_log
                  /\ sink_log' = i.run.forwarder.sink_log
                  /\ stats' = i.run.stats
                  /\ next_id' = IF i.run.forward = "none" THEN next_id
                                ELSE next_id + 1
                  /\ gw_last' = [status |-> i.status, arrival |-> arrival,
                                 stages |-> i.run.stages,
                                 forward |-> i.run.forward,
                                 drain |-> i.run.drain]
          IN  /\ done(loop_iteration(recv_loop, limiter, Forwarder, stats,
                                     arrival.k, arrival.tokens, now, now_ms,
                                     write_ok, next_id))
              /\ clock_now' = now
    /\ gw_iterations' = gw_iterations + 1
    /\ UNCHANGED <<config_, last_call, drained, rv_last, rv_calls>>
    /\ UNCHANGED <<allow_count, insertions, lim_last, admit_calls, recency,
                   solo>>
    /\ UNCHANGED <<bq_vars, env_vars, met_vars, log_vars, plog_vars, pm_vars>>

\* g_running is cleared: the loop ends and main runs the final drain_all
Shutdown ==
    /\ gw_last.status # "stopped"
    /\ \E writes \in [1 .. BQ_size(queue_) -> BOOLEAN] :
          LET r == drain_all_loop(Forwarder, writes, 0) IN
          /\ quota_tracker_' = r.f.quota_tracker_
          /\ queue_' = r.f.queue_
          /\ total_forwarded_' = r.f.total_forwarded_
          /\ sink_failures_' = r.f.sink_failures_
          /\ sink_log' = r.f.sink_log
          /\ drained' = r.count
    /\ gw_last' = [gw_last EXCEPT !.status = "stopped"]
    /\ UNCHANGED <<config_, dropped_queue_full_, dropped_quota_, next_id,
                   last_call, queued_log, stats, gw_iterations>>
    /\ UNCHANGED <<rv_vars, bq_vars, lim_vars, env_vars, met_vars, log_vars,
                   plog_vars, pm_vars>>

HostNext == HostIteration \/ Shutdown

SpecHost == HostInit /\ [][HostNext]_vars

(***************************************************************************)
(* Claims about the loop of main, checked under SpecHost                   *)
(***************************************************************************)
\* this step is an iteration of the loop
IsHostIteration == gw_iterations' = gw_iterations + 1

\* the datagram of the iteration just made
LastDatagram == gw_last'.arrival.k

\* the body of a datagram, empty when it has no envelope
BodyIn(data) == BodyOf(data, parse_envelope(PayloadOf(data)))

\* TB-3 accepts the body of the datagram
ParseAccepts(arrival) ==
    \/ /\ detect_message_type(BodyIn(arrival.k.packet)) = "Metrics"
       /\ parse_metrics(arrival.tokens).kind = "ParsedMetrics"
    \/ /\ detect_message_type(BodyIn(arrival.k.packet)) = "Log"
       /\ parse_log(BodyIn(arrival.k.packet)).kind = "ParsedLog"

\* TB-4 accepts what TB-3 made of the body
ValidateAccepts(arrival, now_ms) ==
    /\ ParseAccepts(arrival)
    /\ IF detect_message_type(BodyIn(arrival.k.packet)) = "Metrics"
       THEN validate_metrics(parse_metrics(arrival.tokens),
                             metrics_validation, now_ms).kind
                = "ValidatedMetrics"
       ELSE validate_log(parse_log(BodyIn(arrival.k.packet)),
                         log_validation, now_ms).kind = "ValidatedLog"

\* the verdict of each stage before TB-5 on the datagram, each stage taken
\* alone
StageChecks(arrival, now_ms) ==
    <<Check(admit(limiter, arrival.k.source, clock_now', clock_now').result
                = "Drop", "admit"),
      Check(parse_envelope(PayloadOf(arrival.k.packet)).kind # "ParsedBody",
            "envelope"),
      Check(~ParseAccepts(arrival), "parse"),
      Check(~ValidateAccepts(arrival, now_ms), "validate")>>

\* the stages run when the first failing stage is first ("" when none is)
StagesUpTo(first) ==
    IF first = "" THEN Stages
    ELSE SubSeq(Stages, 1,
                CHOOSE k \in 1 .. Len(Stages) : Stages[k] = first)

\* the drop counters of Stats
DropCounters ==
    {"source_limited", "envelope_drops", "parse_drops", "validation_drops",
     "queue_drops", "quota_drops"}

\* the counter of the stage that ended the datagram, "" when it is queued
CounterOf(first, forward_result) ==
    IF first = "admit" THEN "source_limited"
    ELSE IF first = "envelope" THEN "envelope_drops"
    ELSE IF first = "parse" THEN "parse_drops"
    ELSE IF first = "validate" THEN "validation_drops"
    ELSE IF forward_result = "DroppedQueueFull" THEN "queue_drops"
    ELSE IF forward_result = "DroppedAgentQuotaExceeded" THEN "quota_drops"
    ELSE ""

\* stats after a datagram that incremented the counter c, or none
StatsAfter(c) ==
    [f \in DOMAIN stats |->
        IF f = "received" \/ f = c THEN stats[f] + 1 ELSE stats[f]]

\* the iteration just made did to its datagram what short-circuiting at
\* the stage first does
ShortCircuitsAt(first) ==
    /\ gw_last'.stages = StagesUpTo(first)
    /\ (gw_last'.forward = "none") = (first # "")
    /\ stats' = StatsAfter(CounterOf(first, gw_last'.forward))
    /\ limiter' = admit(limiter, LastDatagram.source, clock_now',
                        clock_now').l
    /\ first # "" =>
          /\ Forwarder' = Forwarder
          /\ next_id' = next_id
    /\ first = "" =>
          /\ next_id' = next_id + 1
          /\ gw_last'.forward = "Queued" =>
                /\ Len(queued_log') = Len(queued_log) + 1
                /\ queued_log'[Len(queued_log')].payload = next_id

\* C26: for every datagram received with status Ok the stages run in the
\* order admit, envelope, parse, validate, forward; the first stage that
\* fails ends the datagram, exactly one drop counter is incremented for it
\* (none when it is Queued), no later stage runs, and a datagram dropped
\* before TB-5 leaves the forwarder's queue, quota map and counters
\* unchanged.
C26_ShortCircuit ==
    [][ (IsHostIteration /\ gw_last'.status = "Ok") =>
            \E now_ms \in WallClock :
                \E first \in {FirstFailing(
                                 StageChecks(gw_last'.arrival, now_ms))} :
                    ShortCircuitsAt(first) ]_vars

\* a valid log that validation dropped for its age, after one datagram was
\* queued and one was dropped by the source limiter
C26_Witness ==
    /\ gw_last.status = "Ok"
    /\ gw_last.stages = <<"admit", "envelope", "parse", "validate">>
    /\ stats.received = 3
    /\ stats.validation_drops = 1
    /\ stats.source_limited = 1
    /\ Len(queued_log) = 1
    /\ Len(sink_log) = 1

\* every iteration so far brought an event to try_forward, and more of them
\* than the queue holds
Flood ==
    /\ gw_last.status = "Ok"
    /\ next_id - 1 = gw_iterations
    /\ gw_iterations > config_.max_queue_depth

\* more events of agent A were brought to try_forward than one agent may
\* have in flight
FloodOfOneAgent ==
    /\ gw_last.status = "Ok"
    /\ Cardinality({i \in 1 .. Len(sink_log) : sink_log[i].agent_id = "A"})
           > config_.max_per_agent

\* no write of the sink has succeeded
SinkOutage == total_forwarded_ = 0 /\ sink_failures_ >= 1

\* C27: in the loop of main with a slow or failing sink the queue fills to
\* max_queue_depth and try_forward returns DroppedQueueFull, and an agent
\* reaches max_per_agent and gets DroppedAgentQuotaExceeded: once more
\* events than the queue holds, or than an agent may have in flight, have
\* come in while the sink was out, a drop has been counted.
C27_BackpressureInHostLoop ==
    /\ (Flood /\ SinkOutage) =>
           \/ dropped_queue_full_ >= 1
           \/ BQ_size(queue_) = config_.max_queue_depth
    /\ (FloodOfOneAgent /\ SinkOutage) => dropped_quota_ >= 1

\* what the loop does instead: drain_one follows every try_forward, so the
\* queue is empty and nothing is in flight whenever an iteration starts,
\* and neither drop is ever returned or counted
HostLoopNeverDrops ==
    /\ BQ_empty(queue_)
    /\ total_in_flight(quota_tracker_) = 0
    /\ dropped_queue_full_ = 0
    /\ dropped_quota_ = 0
    /\ stats.queue_drops = 0
    /\ stats.quota_drops = 0
    /\ Len(sink_log) = Len(queued_log)

\* the flood and the outage do happen in the loop
FloodDuringOutage == ~(Flood /\ SinkOutage /\ FloodOfOneAgent)

\* what try_forward_of says a try_forward step does
TryForwardAgrees ==
    [][ IsTryForwardStep =>
        \E a \in Agents :
            \E r \in {try_forward_of(Forwarder,
                                     [agent_id |-> a, payload |-> next_id])} :
                /\ Forwarder' = r.f
                /\ last_call'.agent_id = a
                /\ last_call'.result = r.result ]_vars
====
